---- MODULE Spec2Model ----
(***************************************************************************)
(* LLM code-deployment service (src/main.py, src/aipipe_integration.py):   *)
(* the content-generation fallback chain, the notification sender and the  *)
(* background task pipeline.                                               *)
(*                                                                         *)
(* Texts are sequences of one-character strings, so that find, slicing,    *)
(* strip and startswith are computed as Python computes them.  A Python    *)
(* value is a record [k, s]: k = "str" carries the text s, the other kinds *)
(* are the non-text values a JSON body or an SDK field can hold.           *)
(***************************************************************************)
EXTENDS Integers, Sequences, FiniteSets, TLC

VARIABLES
    cfg,                \* module-level clients: which credentials are configured
    env,                \* what the outside world may answer in this run
    pc,                 \* per task: position in the handler / background task
    req,                \* per task: the TaskRequest
    calls,              \* per task: providers invoked, in order
    fallback_reason,    \* per task: why the primary provider was left
    aipipe_how,         \* per task: how provider A produced its result
    aipipe_result,      \* per task: result in generate_with_aipipe
    deepseek_how,       \* per task: how provider B produced its result
    deepseek_result,    \* per task: what deepseek_client.generate_content returned
    openai_content,     \* per task: response.choices[0].message.content
    generated_content,  \* per task: generated_content in generate_app_code
    files,              \* per task: the mapping generate_app_code returned
    gen_outcome,        \* per task: "none", "returned" or "raised"
    repo_name,          \* per task: repo_name in the background task
    payload,            \* per task: the EvaluationPayload handed to notify_evaluation_api
    attempt,            \* per task: loop variable of notify_evaluation_api
    posts,              \* per task: what each delivery to the callback URL ended in
    sleeps,             \* per task: the delays slept, in order
    notify_ret,         \* per task: "none", "true", "false" or "raised"
    inbox,              \* the tasks whose request has not arrived yet
    ack,                \* per task: what the handler answered to the caller
    repos,              \* the account at the repository backend: name -> repository
    repo_ops,           \* per task: the backend operations the task performed
    file_i,             \* per task: position of the file loop in the dict order
    file_sha,           \* per task: version token read by get_contents
    publish_result      \* per task: (repo_url, pages_url) returned by the publish step

gen_vars == <<calls, fallback_reason, aipipe_how, aipipe_result, deepseek_how,
              deepseek_result, openai_content, generated_content, files,
              gen_outcome, repo_name>>

ntf_vars == <<payload, attempt, posts, sleeps, notify_ret>>

repo_vars == <<repos, repo_ops, file_i, file_sha, publish_result>>

vars == <<cfg, env, pc, req, inbox, ack, gen_vars, ntf_vars, repo_vars>>

\* what the steps of generate_app_code leave alone
gen_frame == <<cfg, env, req, inbox, ack, ntf_vars, repo_vars>>

\* what the steps of notify_evaluation_api leave alone
ntf_frame == <<cfg, env, req, inbox, ack, payload, gen_vars, repo_vars>>

\* what the steps of create_github_repo and update_github_repo leave alone
repo_frame == <<cfg, env, req, inbox, ack, gen_vars, attempt, posts, sleeps, notify_ret>>

----------------------------------------------------------------------------
(* Bounds of the model *)

NumTasks == 2
MaxPieces == 2
MaxChecks == 1
MaxRound == 2
MaxNameLen == 3
PadLen == 185

Tasks == 1..NumTasks

----------------------------------------------------------------------------
(* The event loop *)

\* main.py:885 runs the service in one process on one event loop.  Every call
\* to a provider, to the repository backend and to the callback URL is a
\* blocking call made inside a coroutine, so a task keeps the loop from its
\* first call until it suspends in asyncio.sleep (line 657) or ends.  A task
\* that is accepted but has not made its first call does not hold the loop.
OffLoop == {"idle", "rejected", "generating", "sleeping", "done", "failed"}

OnLoop(t) == pc[t] \notin OffLoop

\* no other task holds the loop
LoopFree(t) == \A u \in Tasks \ {t} : ~OnLoop(u)

----------------------------------------------------------------------------
(* Program constants *)

max_retries == 5
base_delay == 1
MarkerWindow == 200
PromptEcho == 300
MockMarkerOffset == 153
PromptBriefOffset == 82
HtmlFenceLen == 7
FenceLen == 3

----------------------------------------------------------------------------
(* Python strings *)

Lit(n, c) == [i \in 1..n |-> c]

Min(S) == CHOOSE x \in S : \A y \in S : x <= y

\* s.find(p, start): lowest 0-based index >= start where p occurs, else -1
Find(s, p, start) ==
    LET hits == {i \in start..(Len(s) - Len(p)) :
                    \A j \in 1..Len(p) : s[i + j] = p[j]}
    IN IF hits = {} THEN -1 ELSE Min(hits)

\* p in s
Contains(s, p) == Find(s, p, 0) # -1

\* s.startswith(p)
StartsWith(s, p) ==
    /\ Len(s) >= Len(p)
    /\ \A j \in 1..Len(p) : s[j] = p[j]

\* s[a:b] for a >= 0; a negative b counts from the end
Slice(s, a, b) ==
    LET hi0 == IF b < 0 THEN Len(s) + b ELSE b
        hi  == IF hi0 < 0 THEN 0 ELSE IF hi0 > Len(s) THEN Len(s) ELSE hi0
        lo  == IF a > Len(s) THEN Len(s) ELSE a
    IN IF lo >= hi THEN <<>> ELSE SubSeq(s, lo + 1, hi)

\* s[:n]
Take(s, n) == Slice(s, 0, n)

\* s[a:]
Drop(s, a) == Slice(s, a, Len(s))

IsSpace(c) == c \in {" ", "\n", "\t"}

\* s.strip()
Strip(s) ==
    LET keep == {i \in 1..Len(s) : ~IsSpace(s[i])}
    IN IF keep = {} THEN <<>>
       ELSE SubSeq(s, Min(keep), CHOOSE i \in keep : \A j \in keep : j <= i)

\* sep.join(parts)
RECURSIVE Join(_, _)
Join(parts, sep) ==
    IF parts = <<>> THEN <<>>
    ELSE IF Len(parts) = 1 THEN parts[1]
    ELSE parts[1] \o sep \o Join(Tail(parts), sep)

\* s.split(sep)[0] for a one-character sep
SplitFirst(s, sep) ==
    LET i == Find(s, <<sep>>, 0)
    IN IF i = -1 THEN s ELSE Take(s, i)

----------------------------------------------------------------------------
(* Python values *)

Str(s)  == [k |-> "str", s |-> s]
NoneV   == [k |-> "none", s |-> <<>>]
ListV   == [k |-> "list", s |-> <<>>]   \* a non-empty list or dict
NumV    == [k |-> "num", s |-> <<>>]    \* a non-zero number
Unset   == [k |-> "unset", s |-> <<>>]  \* the variable is not bound yet

\* bool(v)
Truthy(v) == IF v.k = "str" THEN v.s # <<>> ELSE v.k \in {"list", "num"}

\* a or b
Or(a, b) == IF Truthy(a) THEN a ELSE b

----------------------------------------------------------------------------
(* Text the providers may send *)

LB == <<"{">>
PlainX == <<"x">>
Space1 == <<" ">>
\* the backquote character (the lexer of SANY rejects it inside a string)
BQ == "bq"
Fence == <<BQ, BQ, BQ>>
HtmlFence == Fence \o <<"h", "t", "m", "l">>
Marker == <<"G", "e", "n", "e", "r", "a", "t", "e", "d", " ",
            "A", "p", "p", "l", "i", "c", "a", "t", "i", "o", "n">>
Pad == Lit(PadLen, "x")

Pieces == {LB, PlainX, Fence, Marker}

RECURSIVE Concats(_)
Concats(n) ==
    IF n = 0 THEN {<<>>}
    ELSE LET shorter == Concats(n - 1)
         IN shorter \cup {s \o p : s \in shorter, p \in Pieces}

\* texts with a long prefix, and fenced blocks of each kind
LongTexts == {Pad, Pad \o Marker}

FencedTexts ==
    {HtmlFence \o PlainX \o Fence,
     HtmlFence \o Fence,
     HtmlFence \o Space1 \o Fence,
     HtmlFence \o PlainX,
     PlainX \o Fence \o Space1 \o PlainX \o Space1 \o Fence \o PlainX,
     Fence \o <<"j", "s">> \o Fence \o HtmlFence \o <<"y">> \o Fence}

Texts == Concats(MaxPieces) \cup LongTexts \cup FencedTexts

\* non-text values a provider's JSON body or SDK field may carry
NonText == {ListV, NumV}

----------------------------------------------------------------------------
(* Requests *)

BriefTitled == <<"a", ".", "b">>
BriefPlain == <<"y">>
Briefs == {BriefTitled, BriefPlain}

\* the i-th check of a request: "c" followed by i strokes
Check(i) == <<"c">> \o Lit(i, "i")

ChecksLists == {[i \in 1..n |-> Check(i)] : n \in 0..MaxChecks}

Attachment == [name |-> "sample.png", url |-> "data:image/png;base64,AA"]
AttachmentLists == {<<>>, <<Attachment>>}

----------------------------------------------------------------------------
(* main.py: generate_enhanced_prompt *)

\* the fixed text before {brief}; only its length is kept
PromptHead == <<"\n">> \o Lit(PromptBriefOffset - 1, "p")
PromptMid == <<"\n", "R", "\n">>
PromptTail == <<"\n", "Q", "\n">>

Bullet(check) == <<"-", " ">> \o check

Bullets(checks) == Join([i \in 1..Len(checks) |-> Bullet(checks[i])], <<"\n">>)

\* attachments is a parameter the body never reads
generate_enhanced_prompt(brief, checks, attachments) ==
    PromptHead \o brief \o PromptMid \o Bullets(checks) \o PromptTail

----------------------------------------------------------------------------
(* aipipe_integration.py: the two fallback providers *)

\* the fixed text of the placeholder page; the marker sits at its true offset
MockHead == <<"<">> \o Lit(MockMarkerOffset - 1, "d")
MockMid == <<"m">> \o Marker \o <<"m">>
MockTail == <<".", ".", ".", "m", ">">>

_get_mock_response(prompt) ==
    MockHead \o Marker \o MockMid \o Take(prompt, PromptEcho) \o MockTail

\* json.dumps(result) of a response object
JsonDumps == <<"{", "j", "}">>

\* What one HTTP exchange with a provider can end in.  k = "error": requests.post
\* or response.json() raised.  k = "http": a response with a status and a body;
\* a and b are the two fields the client reads (None when the field is absent).
HttpError == [k |-> "error", status |-> 0, shape |-> "none", a |-> NoneV, b |-> NoneV]

Http(status, shape, a, b) ==
    [k |-> "http", status |-> status, shape |-> shape, a |-> a, b |-> b]

\* AIPipeClient.generate_content; o.a is body["response"], o.b is body["output"]
AIPipeGenerateContent(token, o, prompt) ==
    IF ~token THEN Str(_get_mock_response(prompt))
    ELSE IF o.k = "error" THEN Str(_get_mock_response(prompt))
    ELSE IF o.status = 200 THEN Or(Or(o.a, o.b), Str(_get_mock_response(prompt)))
    ELSE Str(_get_mock_response(prompt))

AIPipeHow(token, o) ==
    IF ~token THEN "no_token"
    ELSE IF o.k = "error" THEN "error"
    ELSE IF o.status # 200 THEN "status"
    ELSE IF Truthy(Or(o.a, o.b)) THEN "value" ELSE "missing"

\* DeepSeekClient.generate_content.  Body shapes:
\*   "chat"      choices[0].message (or choices[0]) is an object; a = content, b = text
\*   "chat_bare" choices[0].message is a string a
\*   "flat"      no choices; a = response, b = output
\*   "not_object" the body is not an object, or choices[0] is not one
DeepSeekGenerateContent(key, o, prompt) ==
    IF ~key THEN Str(_get_mock_response(prompt))
    ELSE IF o.k = "error" THEN Str(_get_mock_response(prompt))
    ELSE IF o.status # 200 THEN Str(_get_mock_response(prompt))
    ELSE IF o.shape = "chat" THEN Or(Or(o.a, o.b), Str(JsonDumps))
    ELSE IF o.shape = "chat_bare" THEN o.a
    ELSE IF o.shape = "flat" THEN Or(Or(o.a, o.b), Str(JsonDumps))
    ELSE Str(JsonDumps)

DeepSeekHow(key, o) ==
    IF ~key THEN "no_key"
    ELSE IF o.k = "error" THEN "error"
    ELSE IF o.status # 200 THEN "status"
    ELSE IF o.shape = "chat_bare" THEN "value"
    ELSE IF o.shape = "not_object" THEN "dumps"
    ELSE IF Truthy(Or(o.a, o.b)) THEN "value" ELSE "dumps"

AcceptVerdictAlwaysFallsBack(result) ==
    IF ~Truthy(result) THEN "reject"
    ELSE IF result.k # "str" THEN "raise"
    ELSE "reject"

\* the marker is looked for in the whole text, not in its first 200 characters
AcceptVerdictNoWindow(result) ==
    IF ~Truthy(result) THEN "reject"
    ELSE IF result.k # "str" THEN "raise"
    ELSE IF StartsWith(result.s, LB) THEN "reject"
    ELSE IF Contains(result.s, Marker) THEN "reject"
    ELSE "accept"

\* generate_with_aipipe, line 180: the verdict on provider A's result.
\* A truthy value that is no string has no startswith: AttributeError.
AcceptVerdict(result) ==
    IF ~Truthy(result) THEN "reject"
    ELSE IF result.k # "str" THEN "raise"
    ELSE IF StartsWith(result.s, LB) THEN "reject"
    ELSE IF Contains(Take(result.s, MarkerWindow), Marker) THEN "reject"
    ELSE "accept"

----------------------------------------------------------------------------
(* main.py: generate_app_code, lines 165-446 *)

FileNames == {"index.html", "styles.css", "script.js", "README.md", "LICENSE"}

\* insertion order of the dict
FileOrder == <<"index.html", "styles.css", "script.js", "README.md", "LICENSE">>

\* the test (fence in generated_content) raises TypeError for None and for a number
NormaliseRaises(content) == content.k \in {"none", "num", "unset"}

IndexHtml(content) ==
    IF content.k # "str" THEN content
    ELSE IF Contains(content.s, HtmlFence) THEN
        LET html_start == Find(content.s, HtmlFence, 0) + HtmlFenceLen
            html_end == Find(content.s, Fence, html_start)
        IN Str(Strip(Slice(content.s, html_start, html_end)))
    ELSE IF Contains(content.s, Fence) THEN
        LET code_start == Find(content.s, Fence, 0) + FenceLen
            code_end == Find(content.s, Fence, code_start)
        IN Str(Strip(Slice(content.s, code_start, code_end)))
    ELSE content

StylesCss == Str(<<"c", "s", "s">>)
ScriptJs == Str(<<"j", "s">>)
License == Str(<<"M", "I", "T">>)

Readme(brief, checks) ==
    Str(<<"#", " ">> \o SplitFirst(brief, ".") \o <<"\n", "D", "\n">> \o brief
        \o <<"\n", "F", "\n">> \o Bullets(checks) \o <<"\n", "L", "\n">>)

\* the LICENSE entry is forgotten
GenerateFilesNoLicense(content, brief, checks) ==
    [f \in FileNames \ {"LICENSE"} |->
        CASE f = "index.html" -> IndexHtml(content)
          [] f = "styles.css" -> StylesCss
          [] f = "script.js" -> ScriptJs
          [] f = "README.md" -> Readme(brief, checks)]

GenerateFiles(content, brief, checks) ==
    [f \in FileNames |->
        CASE f = "index.html" -> IndexHtml(content)
          [] f = "styles.css" -> StylesCss
          [] f = "script.js" -> ScriptJs
          [] f = "README.md" -> Readme(brief, checks)
          [] f = "LICENSE" -> License]

NoFiles == [f \in {} |-> Unset]


----------------------------------------------------------------------------
(* What the outside world may answer *)

ProviderStatuses == {200, 429}

\* env names the range of answers: "wide" for the study of one generation,
\* "narrow" where one whole task runs, "race" where two tasks run, "calm"
\* where the primary provider and the callback always succeed
NarrowTexts == {PlainX, HtmlFence \o PlainX \o Fence}

TextsOf(e) == IF e = "wide" THEN Texts ELSE NarrowTexts

\* values a provider's field may hold
FieldValues(e) == {Str(x) : x \in TextsOf(e)} \cup NonText

\* values sent in a field the client reads second
AltValues == {Str(PlainX), Str(LB), ListV}

OpenAIOutcomes(e) ==
    IF e = "calm" THEN {[k |-> "return", v |-> Str(PlainX)]} ELSE
    IF e = "race"
    THEN {[k |-> "raise_other", v |-> NoneV]}
         \cup {[k |-> "return", v |-> Str(x)] : x \in TextsOf(e)}
    ELSE {[k |-> "raise_quota", v |-> NoneV], [k |-> "raise_other", v |-> NoneV]}
         \cup {[k |-> "return", v |-> v] : v \in {Str(x) : x \in TextsOf(e)} \cup {NoneV}}

AIPipeOutcomes(e) ==
    IF e = "race" THEN {HttpError} ELSE
    {HttpError}
    \cup {Http(st, "flat", NoneV, NoneV) : st \in ProviderStatuses}
    \cup {Http(200, "flat", v, NoneV) : v \in FieldValues(e)}
    \cup {Http(200, "flat", NoneV, v) : v \in AltValues}

DeepSeekOutcomes(e) ==
    IF e = "race" THEN {Http(200, "chat", Str(PlainX), NoneV)} ELSE
    {HttpError}
    \cup {Http(st, "flat", NoneV, NoneV) : st \in ProviderStatuses}
    \cup {Http(200, "not_object", NoneV, NoneV), Http(200, "chat", NoneV, NoneV)}
    \cup {Http(200, "chat", v, NoneV) : v \in FieldValues(e)}
    \cup {Http(200, "chat", NoneV, v) : v \in AltValues}
    \cup {Http(200, "chat_bare", Str(PlainX), NoneV)}
    \cup {Http(200, "flat", v, NoneV) : v \in AltValues}
    \cup {Http(200, "flat", NoneV, v) : v \in AltValues}

----------------------------------------------------------------------------
(* main.py: sanitize_repo_name *)

NoncePrefixLen == 8

UpperCase == <<"A", "B", "C", "D", "E", "F", "G", "H", "I", "J", "K", "L", "M",
               "N", "O", "P", "Q", "R", "S", "T", "U", "V", "W", "X", "Y", "Z">>
LowerCase == <<"a", "b", "c", "d", "e", "f", "g", "h", "i", "j", "k", "l", "m",
               "n", "o", "p", "q", "r", "s", "t", "u", "v", "w", "x", "y", "z">>
Digits == {"0", "1", "2", "3", "4", "5", "6", "7", "8", "9"}

\* c.lower()
LowerChar(c) ==
    IF \E i \in 1..26 : UpperCase[i] = c
    THEN LowerCase[CHOOSE i \in 1..26 : UpperCase[i] = c]
    ELSE c

Lower(s) == [i \in 1..Len(s) |-> LowerChar(s[i])]

\* the class [a-zA-Z0-9-]
IsNameChar(c) ==
    \/ \E i \in 1..26 : UpperCase[i] = c \/ LowerCase[i] = c
    \/ c \in Digits
    \/ c = "-"

\* re.sub(r'[^a-zA-Z0-9-]', '-', s)
Hyphenate(s) == [i \in 1..Len(s) |-> IF IsNameChar(s[i]) THEN s[i] ELSE "-"]

\* re.sub(r'-+', '-', s)
RECURSIVE Collapse(_)
Collapse(s) ==
    IF Len(s) <= 1 THEN s
    ELSE IF s[1] = "-" /\ s[2] = "-" THEN Collapse(Tail(s))
    ELSE <<s[1]>> \o Collapse(Tail(s))

\* the hyphens at the two ends stay
StripHyphensNot(s) == s

\* s.strip('-')
StripHyphens(s) ==
    LET keep == {i \in 1..Len(s) : s[i] # "-"}
    IN IF keep = {} THEN <<>>
       ELSE SubSeq(s, Min(keep), CHOOSE i \in keep : \A j \in keep : j <= i)

NamePrefix == <<"l", "l", "m", "-", "p", "r", "o", "j", "e", "c", "t", "-">>

\* lines 97-99: lower(), the two substitutions and strip() in turn, each computed once
sanitize_repo_name(task, nonce) ==
    CHOOSE name \in
        {NamePrefix \o StripHyphens(collapsed) \o <<"-">> \o Take(nonce, NoncePrefixLen) :
            collapsed \in {Collapse(hyphenated) :
                hyphenated \in {Hyphenate(lowered) : lowered \in {Lower(task)}}}} : TRUE

----------------------------------------------------------------------------
(* main.py: generate_app_code, one action per provider call *)

Prompt(t) == generate_enhanced_prompt(req[t].brief, req[t].checks, req[t].attachments)

\* lines 165-450 once the content is known: build the mapping and return it,
\* or raise HTTPException(500) out of the outer try
Finish(t, content) ==
    /\ generated_content' = [generated_content EXCEPT ![t] = content]
    /\ IF NormaliseRaises(content)
       THEN /\ files' = files
            /\ gen_outcome' = [gen_outcome EXCEPT ![t] = "raised"]
            /\ pc' = [pc EXCEPT ![t] = "failed"]
            /\ UNCHANGED repo_name
       ELSE /\ files' = [files EXCEPT ![t] =
                            GenerateFiles(content, req[t].brief, req[t].checks)]
            /\ gen_outcome' = [gen_outcome EXCEPT ![t] = "returned"]
            \* lines 759 / 839, reached as soon as the mapping is returned
            /\ repo_name' = [repo_name EXCEPT ![t] =
                                sanitize_repo_name(req[t].task, req[t].nonce)]
            /\ pc' = [pc EXCEPT ![t] = "publishing"]

\* the generation is started again after an exception
GenRaiseRetries(t) ==
    /\ pc' = [pc EXCEPT ![t] = "generating"]
    /\ UNCHANGED <<generated_content, files, gen_outcome, repo_name>>

\* the exception is dropped and the task goes on to its repository
GenRaiseGoesOn(t) ==
    /\ gen_outcome' = [gen_outcome EXCEPT ![t] = "raised"]
    /\ pc' = [pc EXCEPT ![t] = "publishing"]
    /\ UNCHANGED <<generated_content, files, repo_name>>

\* an exception leaves generate_with_aipipe: the outer except of
\* generate_app_code turns it into HTTPException(500)
GenRaise(t) ==
    /\ gen_outcome' = [gen_outcome EXCEPT ![t] = "raised"]
    /\ pc' = [pc EXCEPT ![t] = "failed"]
    /\ UNCHANGED <<generated_content, files, repo_name>>

\* the fallback is entered although the primary provider returned
PrimaryFailedAlways(o) == TRUE

\* lines 154-160: the except branch of the primary call is taken
PrimaryFailed(o) == o.k # "return"

\* lines 142-160: the primary provider
CallOpenAI(t) ==
    /\ LoopFree(t)
    /\ pc[t] = "generating"
    /\ cfg.openai
    /\ calls' = [calls EXCEPT ![t] = Append(@, "openai")]
    /\ \E o \in OpenAIOutcomes(env) :
          /\ openai_content' = [openai_content EXCEPT ![t] =
                IF o.k = "return" THEN o.v ELSE @]
          /\ IF PrimaryFailed(o)
             THEN /\ fallback_reason' = [fallback_reason EXCEPT ![t] =
                        IF o.k = "raise_quota" THEN "quota" ELSE "other"]
                  /\ pc' = [pc EXCEPT ![t] = "fallback"]
                  /\ UNCHANGED <<generated_content, files, gen_outcome, repo_name>>
             ELSE /\ Finish(t, o.v)
                  /\ UNCHANGED fallback_reason
    /\ UNCHANGED <<aipipe_how, aipipe_result, deepseek_how, deepseek_result>>
    /\ UNCHANGED gen_frame

\* lines 157/160/163 and generate_with_aipipe lines 179-182: provider A and
\* the verdict on its result
CallAIPipe(t) ==
    /\ LoopFree(t)
    /\ \/ pc[t] = "fallback"
       \/ pc[t] = "generating" /\ ~cfg.openai
    /\ calls' = [calls EXCEPT ![t] = Append(@, "aipipe")]
    /\ fallback_reason' = [fallback_reason EXCEPT ![t] =
            IF pc[t] = "generating" THEN "unconfigured" ELSE @]
    /\ \E o \in (IF cfg.aipipe_token THEN AIPipeOutcomes(env) ELSE {HttpError}) :
          \E result \in {AIPipeGenerateContent(cfg.aipipe_token, o, Prompt(t))} :
          LET verdict == AcceptVerdict(result)
          IN /\ aipipe_result' = [aipipe_result EXCEPT ![t] = result]
             /\ aipipe_how' = [aipipe_how EXCEPT ![t] = AIPipeHow(cfg.aipipe_token, o)]
             /\ CASE verdict = "accept" -> Finish(t, result)
                  [] verdict = "reject" ->
                        /\ pc' = [pc EXCEPT ![t] = "deepseek"]
                        /\ UNCHANGED <<generated_content, files, gen_outcome, repo_name>>
                  [] verdict = "raise" -> GenRaise(t)
    /\ UNCHANGED <<openai_content, deepseek_how, deepseek_result>>
    /\ UNCHANGED gen_frame

\* generate_with_aipipe lines 185-186: provider B, whose result is returned as it is;
\* the local result of provider A goes out of scope
CallDeepSeek(t) ==
    /\ LoopFree(t)
    /\ pc[t] = "deepseek"
    /\ calls' = [calls EXCEPT ![t] = Append(@, "deepseek")]
    /\ aipipe_result' = [aipipe_result EXCEPT ![t] = Unset]
    /\ \E o \in (IF cfg.deepseek_key THEN DeepSeekOutcomes(env) ELSE {HttpError}) :
          \E result \in {DeepSeekGenerateContent(cfg.deepseek_key, o, Prompt(t))} :
             /\ deepseek_result' = [deepseek_result EXCEPT ![t] = result]
             /\ deepseek_how' = [deepseek_how EXCEPT ![t] = DeepSeekHow(cfg.deepseek_key, o)]
             /\ Finish(t, result)
    /\ UNCHANGED <<openai_content, fallback_reason, aipipe_how>>
    /\ UNCHANGED gen_frame

----------------------------------------------------------------------------
(* main.py: notify_evaluation_api *)

UrlHttp == <<"h", "t", "t", "p", ":", "/", "/", "e">>
UrlHttps == <<"h", "t", "t", "p", "s", ":", "/", "/", "e">>
UrlNoScheme == <<"e", ".", "o", "r", "g">>

\* task_request.evaluation_url.startswith(('http://', 'https://'))
UrlHasHttpScheme(url) ==
    \/ StartsWith(url, <<"h", "t", "t", "p", ":", "/", "/">>)
    \/ StartsWith(url, <<"h", "t", "t", "p", "s", ":", "/", "/">>)

\* What one requests.post to the callback URL ends in: a response with a
\* status, or an exception of requests.exceptions (all RequestException)
Response(status) == [k |-> "http", status |-> status]
Exc(name) == [k |-> name, status |-> 0]

CallbackStatuses(e) ==
    IF e = "wide" THEN {200, 201, 404, 500}
    ELSE IF e = "calm" THEN {200}
    ELSE {200, 500}

CallbackErrors(e) == IF e = "wide" THEN {"Timeout", "ConnectionError"} ELSE {}

\* requests refuses a URL without an http scheme before anything is sent
CallbackOutcomes(e, url) ==
    IF UrlHasHttpScheme(url)
    THEN {Response(st) : st \in CallbackStatuses(e)} \cup {Exc(x) : x \in CallbackErrors(e)}
    ELSE {Exc("MissingSchema")}

\* a 2xx status counts as delivered
IsSuccessAny2xx(status) == status >= 200 /\ status < 300

\* line 645: response.status_code == 200
IsSuccess(status) == status = 200

\* only a timeout is caught
NotifyCatchesOnlyTimeout(o) == o.k = "Timeout"

\* line 651: except requests.exceptions.RequestException
NotifyCatches(o) == o.k \in {"Timeout", "ConnectionError", "MissingSchema"}

RECURSIVE Pow2(_)
Pow2(n) == IF n = 0 THEN 1 ELSE 2 * Pow2(n - 1)

\* the delay grows by base_delay each time
DelayLinear(a) == base_delay * (a + 1)

\* line 655: delay = base_delay * (2 ** attempt)
Delay(a) == base_delay * Pow2(a)

\* a notification that was not delivered fails the task
AfterNotifyFailsTask(success) == IF success THEN "done" ELSE "failed"

\* lines 774-779 / 854-859: the result of notify_evaluation_api only selects
\* the line that is logged, and the background task ends
AfterNotify(success) == "done"

\* lines 636-660, one delivery: the post, the test of its result, and either the
\* return or the start of the wait before the next delivery
NotifyPost(t) ==
    /\ LoopFree(t)
    /\ pc[t] = "notifying"
    /\ attempt[t] < max_retries
    /\ \E o \in CallbackOutcomes(env, req[t].evaluation_url) :
          /\ posts' = [posts EXCEPT ![t] = Append(@, o)]
          /\ IF o.k = "http" /\ IsSuccess(o.status)
             THEN /\ notify_ret' = [notify_ret EXCEPT ![t] = "true"]
                  /\ pc' = [pc EXCEPT ![t] = AfterNotify(TRUE)]
                  /\ UNCHANGED sleeps
             ELSE IF o.k # "http" /\ ~NotifyCatches(o)
             THEN \* the exception leaves notify_evaluation_api; the except of
                  \* the background task logs it
                  /\ notify_ret' = [notify_ret EXCEPT ![t] = "raised"]
                  /\ pc' = [pc EXCEPT ![t] = "failed"]
                  /\ UNCHANGED sleeps
             ELSE IF attempt[t] < max_retries - 1
             THEN /\ sleeps' = [sleeps EXCEPT ![t] = Append(@, Delay(attempt[t]))]
                  /\ pc' = [pc EXCEPT ![t] = "sleeping"]
                  /\ UNCHANGED notify_ret
             ELSE /\ notify_ret' = [notify_ret EXCEPT ![t] = "false"]
                  /\ pc' = [pc EXCEPT ![t] = AfterNotify(FALSE)]
                  /\ UNCHANGED sleeps
    /\ UNCHANGED attempt
    /\ UNCHANGED ntf_frame

\* the notification starts over after each wait
NotifyWakeStartsOver(t) ==
    /\ LoopFree(t)
    /\ pc[t] = "sleeping"
    /\ attempt' = [attempt EXCEPT ![t] = 0]
    /\ posts' = [posts EXCEPT ![t] = <<>>]
    /\ sleeps' = [sleeps EXCEPT ![t] = <<>>]
    /\ pc' = [pc EXCEPT ![t] = "notifying"]
    /\ UNCHANGED notify_ret
    /\ UNCHANGED ntf_frame

\* line 657 returns from asyncio.sleep; the loop takes its next value
NotifyWake(t) ==
    /\ LoopFree(t)
    /\ pc[t] = "sleeping"
    /\ attempt' = [attempt EXCEPT ![t] = @ + 1]
    /\ pc' = [pc EXCEPT ![t] = "notifying"]
    /\ UNCHANGED <<posts, sleeps, notify_ret>>
    /\ UNCHANGED ntf_frame

\* the request is read from a place every task shares, which holds the request
\* accepted last
PayloadOfShared(r, repo_url, pages_url) ==
    LET accepted == {u \in Tasks : ack[u].status = "accepted"}
        last == req[CHOOSE u \in accepted : \A v \in accepted : v <= u]
    IN [email |-> last.email, task |-> last.task, round |-> last.round,
        nonce |-> last.nonce, repo_url |-> repo_url, commit_sha |-> "main",
        pages_url |-> pages_url]

\* the payload lines 764-772 and 844-852 build
PayloadOf(r, repo_url, pages_url) ==
    [email |-> r.email, task |-> r.task, round |-> r.round, nonce |-> r.nonce,
     repo_url |-> repo_url, commit_sha |-> "main", pages_url |-> pages_url]

----------------------------------------------------------------------------
(* The repository backend, as create_github_repo and update_github_repo use it *)

TaskIdTestApp == <<"T", "e", "s", "t", " ", "A", "p", "p", "!">>
NonceLong == <<"a", "b", "c", "1", "2", "3", "4", "5", "x", "y", "z">>

TaskIdOther == <<"B", "2">>

TaskIds == {TaskIdTestApp}
Nonces == {NonceLong}

\* the names of the account: that of TaskIds and Nonces, and one more
RepoNames ==
    {sanitize_repo_name(tk, n) : tk \in TaskIds \cup {TaskIdOther}, n \in Nonces}

WorkflowPath == ".github/workflows/deploy.yml"
WorkflowContent == Str(<<"y", "m", "l">>)

EmptyTree == [q \in {} |-> Unset]

\* a repository: the files of its default branch and whether pages are enabled
NoRepo == [exists |-> FALSE, tree |-> EmptyTree, pages |-> FALSE]
NewRepo == [exists |-> TRUE, tree |-> EmptyTree, pages |-> FALSE]

Put(tree, path, content) ==
    [q \in DOMAIN tree \cup {path} |-> IF q = path THEN content ELSE tree[q]]

\* the version token of a file is the hash of its content
ShaOf(content) == content

Login == <<"u">>

RepoUrl(name) == <<"g", "h", "/">> \o Login \o <<"/">> \o name
PagesUrl(name) == Login \o <<".", "i", "o", "/">> \o name

\* what the backend may do beyond what the state of the account decides
Faults(e) == IF e \in {"narrow", "calm"} THEN {"none", "github_500"}
             ELSE IF e = "race" THEN {"none"}
             ELSE {"none", "github_500", "network"}

\* user.create_repo(name): the backend refuses a name the account already has
CreateRepoResult(name, fault) ==
    IF fault # "none" THEN fault
    ELSE IF repos[name].exists THEN "github_422"
    ELSE "ok"

\* repo.create_file(path, message, content): the client asserts that content is
\* a str before any request; the backend refuses a path that exists
CreateFileResult(name, path, content, fault) ==
    IF content.k # "str" THEN "assertion"
    ELSE IF fault # "none" THEN fault
    ELSE IF path \in DOMAIN repos[name].tree THEN "github_422"
    ELSE "ok"

\* repo.get_contents(path)
GetContentsResult(name, path, fault) ==
    IF fault # "none" THEN fault
    ELSE IF path \in DOMAIN repos[name].tree THEN "ok"
    ELSE "github_404"

\* repo.update_file(path, message, content, sha): the backend refuses a stale token
UpdateFileResult(name, path, content, sha, fault) ==
    IF content.k # "str" THEN "assertion"
    ELSE IF fault # "none" THEN fault
    ELSE IF path \notin DOMAIN repos[name].tree THEN "github_404"
    ELSE IF ShaOf(repos[name].tree[path]) # sha THEN "github_409"
    ELSE "ok"

\* GET /user, sent when user.login is read and the user is not loaded yet
GetUserResult(fault) == IF fault # "none" THEN fault ELSE "ok"

\* POST /repos/{owner}/{repo}/pages
EnablePagesResult(name, fault) ==
    IF fault # "none" THEN fault
    ELSE IF repos[name].pages THEN "status_409"
    ELSE "status_201"

----------------------------------------------------------------------------
(* main.py: create_github_repo, one action per backend call *)

RepoName(t) == repo_name[t]

Log(t, op, path, result) ==
    repo_ops' = [repo_ops EXCEPT ![t] = Append(@, <<op, path, result>>)]

\* the error of the backend is dropped and the task goes on to its callback
PublishRaiseGoesOn(t) ==
    /\ pc' = [pc EXCEPT ![t] = "notifying"]
    /\ UNCHANGED <<publish_result, payload>>

\* lines 558-563 / 624-629 raise HTTPException; the except of the background
\* task (lines 781-782 / 861-862) logs it and the task ends
PublishRaise(t) ==
    /\ pc' = [pc EXCEPT ![t] = "failed"]
    /\ UNCHANGED <<publish_result, payload>>

\* lines 553-556 / 619-622 return the two URLs; lines 764-772 / 844-852 build
\* the payload from them
PublishReturn(t) ==
    /\ publish_result' = [publish_result EXCEPT ![t] =
            [repo_url |-> RepoUrl(RepoName(t)), pages_url |-> PagesUrl(RepoName(t))]]
    /\ payload' = [payload EXCEPT ![t] =
            PayloadOf(req[t], RepoUrl(RepoName(t)), PagesUrl(RepoName(t)))]
    /\ pc' = [pc EXCEPT ![t] = "notifying"]

\* a name the account already has is taken for the repository of the call
CreateRepoGoesOnIfExists(r) == r \in {"ok", "github_422"}

\* lines 459-466 and 558-563: every error of create_repo leaves the function
CreateRepoGoesOn(r) == r = "ok"

\* lines 455-466
CreateRepo(t) ==
    /\ LoopFree(t)
    /\ \/ pc[t] = "publishing" /\ req[t].endpoint = "task"
       \/ pc[t] = "create_repo"
    /\ \E fault \in Faults(env) :
          LET r == CreateRepoResult(RepoName(t), fault)
          IN /\ Log(t, "create_repo", "", r)
             /\ IF CreateRepoGoesOn(r)
                THEN /\ repos' = [repos EXCEPT ![RepoName(t)] = IF r = "ok" THEN NewRepo ELSE @]
                     /\ pc' = [pc EXCEPT ![t] = "create_readme"]
                     /\ UNCHANGED <<publish_result, payload>>
                ELSE /\ PublishRaise(t)
                     /\ UNCHANGED repos
    /\ UNCHANGED <<file_i, file_sha>>
    /\ UNCHANGED repo_frame

\* line 470: outside any inner try, so every error is fatal
CreateReadme(t) ==
    /\ LoopFree(t)
    /\ pc[t] = "create_readme"
    /\ \E fault \in Faults(env) :
          LET r == CreateFileResult(RepoName(t), "README.md", files[t]["README.md"], fault)
          IN /\ Log(t, "create_file", "README.md", r)
             /\ IF r = "ok"
                THEN /\ repos' = [repos EXCEPT ![RepoName(t)].tree =
                                    Put(@, "README.md", files[t]["README.md"])]
                     /\ pc' = [pc EXCEPT ![t] = "create_workflow"]
                     /\ UNCHANGED <<publish_result, payload>>
                ELSE /\ PublishRaise(t)
                     /\ UNCHANGED repos
    /\ UNCHANGED <<file_i, file_sha>>
    /\ UNCHANGED repo_frame

\* index of the next file after i that the loop of lines 516-517 commits, or 0
NextCreateIndex(i) ==
    LET later == {j \in (i + 1)..Len(FileOrder) : FileOrder[j] # "README.md"}
    IN IF later = {} THEN 0 ELSE Min(later)

\* an error of the workflow commit leaves the function like any other
WorkflowGoesOnIfOk(r) == r = "ok"

\* lines 510-514: the commit is inside its own try, whose except Exception
\* logs the error and drops it
WorkflowGoesOn(r) == TRUE

\* lines 509-514
CreateWorkflow(t) ==
    /\ LoopFree(t)
    /\ pc[t] = "create_workflow"
    /\ \E fault \in Faults(env) :
          LET r == CreateFileResult(RepoName(t), WorkflowPath, WorkflowContent, fault)
          IN /\ Log(t, "create_file", WorkflowPath, r)
             /\ repos' = [repos EXCEPT ![RepoName(t)].tree =
                            IF r = "ok" THEN Put(@, WorkflowPath, WorkflowContent) ELSE @]
             /\ IF WorkflowGoesOn(r)
                THEN /\ pc' = [pc EXCEPT ![t] = "create_files"]
                     /\ file_i' = [file_i EXCEPT ![t] = NextCreateIndex(0)]
                     /\ UNCHANGED <<publish_result, payload>>
                ELSE /\ PublishRaise(t)
                     /\ UNCHANGED file_i
    /\ UNCHANGED file_sha
    /\ UNCHANGED repo_frame

\* every error of a commit of the loop is dropped
CreateFileGoesOnAlways(r) == TRUE

\* lines 518-523: the commit succeeded, or failed with status 422
CreateFileGoesOn(r) == r \in {"ok", "github_422"}

\* lines 516-523, one file of the loop
CreateFile(t) ==
    /\ LoopFree(t)
    /\ pc[t] = "create_files"
    /\ LET f == FileOrder[file_i[t]]
       IN \E fault \in Faults(env) :
          LET r == CreateFileResult(RepoName(t), f, files[t][f], fault)
          IN /\ Log(t, "create_file", f, r)
             /\ repos' = [repos EXCEPT ![RepoName(t)].tree =
                            IF r = "ok" THEN Put(@, f, files[t][f]) ELSE @]
             /\ IF CreateFileGoesOn(r)
                THEN /\ pc' = [pc EXCEPT ![t] =
                            IF NextCreateIndex(file_i[t]) = 0 THEN "enable_pages" ELSE @]
                     /\ file_i' = [file_i EXCEPT ![t] = NextCreateIndex(@)]
                     /\ UNCHANGED <<publish_result, payload>>
                ELSE /\ PublishRaise(t)
                     /\ UNCHANGED file_i
    /\ UNCHANGED file_sha
    /\ UNCHANGED repo_frame

\* lines 526-556: the pages request, whose failure is only logged, and the return
EnablePages(t) ==
    /\ LoopFree(t)
    /\ pc[t] = "enable_pages"
    /\ \E fault1 \in Faults(env), fault2 \in Faults(env) :
          LET \* line 542 reads user.login, which asks the backend for the user
              login == GetUserResult(fault1)
              \* line 543, reached when the login was read
              posted == EnablePagesResult(RepoName(t), fault2)
              \* line 553 asks again when line 542 failed
              again == GetUserResult(fault2)
          IN IF login = "ok"
             THEN /\ repo_ops' = [repo_ops EXCEPT ![t] =
                        @ \o << <<"get_user", "", login>>, <<"enable_pages", "", posted>> >>]
                  /\ repos' = [repos EXCEPT ![RepoName(t)].pages =
                                    (@ \/ posted = "status_201")]
                  /\ PublishReturn(t)
             ELSE /\ repo_ops' = [repo_ops EXCEPT ![t] =
                        @ \o << <<"get_user", "", login>>, <<"get_user", "", again>> >>]
                  /\ UNCHANGED repos
                  /\ IF again = "ok" THEN PublishReturn(t) ELSE PublishRaise(t)
    /\ UNCHANGED <<file_i, file_sha>>
    /\ UNCHANGED repo_frame

----------------------------------------------------------------------------
(* main.py: update_github_repo, one action per backend call *)

\* user.get_repo(name)
GetRepoResult(name, fault) ==
    IF fault # "none" THEN fault
    ELSE IF repos[name].exists THEN "ok"
    ELSE "github_404"

\* str(n) for an integer
RECURSIVE NatText(_)
NatText(n) ==
    LET digit == <<"0", "1", "2", "3", "4", "5", "6", "7", "8", "9">>
    IN IF n < 10 THEN <<digit[n + 1]>>
       ELSE NatText(n \div 10) \o <<digit[(n % 10) + 1]>>

IntText(n) == IF n < 0 THEN <<"-">> \o NatText(0 - n) ELSE NatText(n)

\* the entry is written twice
UpdatedReadmeTwice(readme_content, round_num) ==
    Str(readme_content.s \o <<"\n", "\n", "H", "\n", "-", " ", "R">>
        \o IntText(round_num) \o <<":", " ", "@">>
        \o <<"\n", "-", " ", "R">> \o IntText(round_num) \o <<":", " ", "@">>)

\* line 609; "@" stands for the timestamp of datetime.now()
UpdatedReadme(readme_content, round_num) ==
    Str(readme_content.s \o <<"\n", "\n", "H", "\n", "-", " ", "R">>
        \o IntText(round_num) \o <<":", " ", "@">>)

\* the answer "not found" is an error like the others
NotFoundDelegatesNever(r) == FALSE

\* lines 574-578: on status 404 the call hands over to create_github_repo
NotFoundDelegates(r) == r = "github_404"

\* lines 568-579
GetRepo(t) ==
    /\ LoopFree(t)
    /\ pc[t] = "publishing"
    /\ req[t].endpoint = "revise"
    /\ \E fault \in Faults(env) :
          LET r == GetRepoResult(RepoName(t), fault)
          IN /\ Log(t, "get_repo", "", r)
             /\ CASE r = "ok" ->
                        /\ pc' = [pc EXCEPT ![t] = "update_files"]
                        /\ file_i' = [file_i EXCEPT ![t] = 1]
                        /\ UNCHANGED <<publish_result, payload>>
                  [] r # "ok" /\ NotFoundDelegates(r) ->
                        /\ pc' = [pc EXCEPT ![t] = "create_repo"]
                        /\ UNCHANGED <<file_i, publish_result, payload>>
                  [] OTHER ->
                        /\ PublishRaise(t)
                        /\ UNCHANGED file_i
    /\ UNCHANGED <<repos, file_sha>>
    /\ UNCHANGED repo_frame

\* the loop of lines 584-602 moves to its next file, or ends
NextUpdate(t) ==
    /\ pc' = [pc EXCEPT ![t] =
            IF file_i[t] < Len(FileOrder) THEN "update_files" ELSE "revise_readme"]
    /\ file_i' = [file_i EXCEPT ![t] = IF @ < Len(FileOrder) THEN @ + 1 ELSE @]
    /\ UNCHANGED <<publish_result, payload>>

\* line 587
GetContents(t) ==
    /\ LoopFree(t)
    /\ pc[t] = "update_files"
    /\ LET f == FileOrder[file_i[t]]
       IN \E fault \in Faults(env) :
          LET r == GetContentsResult(RepoName(t), f, fault)
          IN /\ Log(t, "get_contents", f, r)
             /\ CASE r = "ok" ->
                        /\ file_sha' = [file_sha EXCEPT ![t] =
                                            ShaOf(repos[RepoName(t)].tree[f])]
                        /\ pc' = [pc EXCEPT ![t] = "update_file"]
                        /\ UNCHANGED <<publish_result, payload>>
                  [] r = "github_404" ->
                        /\ pc' = [pc EXCEPT ![t] = "create_missing"]
                        /\ UNCHANGED <<file_sha, publish_result, payload>>
                  [] OTHER ->
                        /\ PublishRaise(t)
                        /\ UNCHANGED file_sha
    /\ UNCHANGED <<repos, file_i>>
    /\ UNCHANGED repo_frame

\* lines 589-594, with the token get_contents read
UpdateFile(t) ==
    /\ LoopFree(t)
    /\ pc[t] = "update_file"
    /\ LET f == FileOrder[file_i[t]]
       IN \E fault \in Faults(env) :
          LET r == UpdateFileResult(RepoName(t), f, files[t][f], file_sha[t], fault)
          IN /\ Log(t, "update_file", f, r)
             /\ repos' = [repos EXCEPT ![RepoName(t)].tree =
                            IF r = "ok" THEN Put(@, f, files[t][f]) ELSE @]
             /\ CASE r = "ok" -> NextUpdate(t)
                  [] r = "github_404" ->
                        /\ pc' = [pc EXCEPT ![t] = "create_missing"]
                        /\ UNCHANGED <<file_i, publish_result, payload>>
                  [] OTHER ->
                        /\ PublishRaise(t)
                        /\ UNCHANGED file_i
    /\ file_sha' = [file_sha EXCEPT ![t] = Unset]
    /\ UNCHANGED repo_frame

\* lines 597-600: create_file inside the except clause, where every error is fatal
CreateMissing(t) ==
    /\ LoopFree(t)
    /\ pc[t] = "create_missing"
    /\ LET f == FileOrder[file_i[t]]
       IN \E fault \in Faults(env) :
          LET r == CreateFileResult(RepoName(t), f, files[t][f], fault)
          IN /\ Log(t, "create_file", f, r)
             /\ repos' = [repos EXCEPT ![RepoName(t)].tree =
                            IF r = "ok" THEN Put(@, f, files[t][f]) ELSE @]
             /\ IF r = "ok"
                THEN NextUpdate(t)
                ELSE /\ PublishRaise(t)
                     /\ UNCHANGED file_i
    /\ UNCHANGED file_sha
    /\ UNCHANGED repo_frame

\* an error while the revision note is written leaves the function
RevisionNoteGoesOnIfOk(r) == r = "ok"

\* lines 605-617: the revision note is written inside its own try, whose
\* except Exception logs the error and drops it
RevisionNoteGoesOn(r) == TRUE

\* lines 605-608 and 616-622: read README.md again; an error ends the revision
\* note and the call returns
ReviseReadmeGet(t) ==
    /\ LoopFree(t)
    /\ pc[t] = "revise_readme"
    /\ \E fault \in Faults(env) :
          LET r == GetContentsResult(RepoName(t), "README.md", fault)
          IN /\ Log(t, "get_contents", "README.md", r)
             /\ IF r = "ok"
                THEN /\ file_sha' = [file_sha EXCEPT ![t] =
                                        ShaOf(repos[RepoName(t)].tree["README.md"])]
                     /\ pc' = [pc EXCEPT ![t] = "revise_readme_put"]
                     /\ UNCHANGED <<publish_result, payload>>
                ELSE /\ IF RevisionNoteGoesOn(r) THEN PublishReturn(t) ELSE PublishRaise(t)
                     /\ UNCHANGED file_sha
    /\ UNCHANGED <<repos, file_i>>
    /\ UNCHANGED repo_frame

\* lines 609-622: write README.md with the revision line; an error is logged
ReviseReadmePut(t) ==
    /\ LoopFree(t)
    /\ pc[t] = "revise_readme_put"
    /\ \E fault \in Faults(env) :
          LET content == UpdatedReadme(files[t]["README.md"], req[t].round)
              r == UpdateFileResult(RepoName(t), "README.md", content, file_sha[t], fault)
          IN /\ Log(t, "update_file", "README.md", r)
             /\ repos' = [repos EXCEPT ![RepoName(t)].tree =
                            IF r = "ok" THEN Put(@, "README.md", content) ELSE @]
             /\ IF RevisionNoteGoesOn(r) THEN PublishReturn(t) ELSE PublishRaise(t)
    /\ file_sha' = [file_sha EXCEPT ![t] = Unset]
    /\ UNCHANGED file_i
    /\ UNCHANGED repo_frame

----------------------------------------------------------------------------
(* main.py: handle_task and handle_revision *)

VerificationSecret == "s3cret"

\* line 90-92
validate_secret(secret) == secret = VerificationSecret

Reject(code, detail) ==
    [code |-> code, status |-> "error", message |-> detail, task_id |-> 0]

Accept(message, task_id) ==
    [code |-> 200, status |-> "accepted", message |-> message, task_id |-> task_id]

NoAck == [code |-> 0, status |-> "none", message |-> "", task_id |-> 0]

\* the message of lines 734 / 814
AcceptedMessage(endpoint) ==
    IF endpoint = "task" THEN "Task received and queued for processing"
    ELSE "Revision received and queued for processing"

\* only the first round is let in
TaskGateRoundOne(r, task_id) ==
    IF ~validate_secret(r.secret) THEN Reject(401, "Invalid secret")
    ELSE IF Strip(r.brief) = <<>> THEN Reject(400, "Brief cannot be empty")
    ELSE IF ~UrlHasHttpScheme(r.evaluation_url) THEN Reject(400, "Invalid evaluation URL")
    ELSE IF r.round # 1 THEN Reject(400, "Task endpoint is for round 1 only")
    ELSE Accept("Task received and queued for processing", task_id)

\* lines 711-736; the uuid of the task is the number of its slot
TaskGate(r, task_id) ==
    IF ~validate_secret(r.secret) THEN Reject(401, "Invalid secret")
    ELSE IF Strip(r.brief) = <<>> THEN Reject(400, "Brief cannot be empty")
    ELSE IF ~UrlHasHttpScheme(r.evaluation_url) THEN Reject(400, "Invalid evaluation URL")
    ELSE Accept("Task received and queued for processing", task_id)

\* the round is compared with 1
RevisionGateFromOne(r, task_id) ==
    IF ~validate_secret(r.secret) THEN Reject(401, "Invalid secret")
    ELSE IF Strip(r.brief) = <<>> THEN Reject(400, "Brief cannot be empty")
    ELSE IF r.round < 1 THEN Reject(400, "Revision endpoint is for round 2+ only")
    ELSE Accept("Revision received and queued for processing", task_id)

\* lines 791-816
RevisionGate(r, task_id) ==
    IF ~validate_secret(r.secret) THEN Reject(401, "Invalid secret")
    ELSE IF Strip(r.brief) = <<>> THEN Reject(400, "Brief cannot be empty")
    ELSE IF r.round < 2 THEN Reject(400, "Revision endpoint is for round 2+ only")
    ELSE Accept("Revision received and queued for processing", task_id)

Rounds == 0..MaxRound

\* the requests a client may send to an endpoint
Requests(endpoint) ==
    {[endpoint |-> endpoint, email |-> "a@x", secret |-> sec, task |-> tk,
      round |-> rd, nonce |-> n, brief |-> b, checks |-> c,
      evaluation_url |-> u, attachments |-> <<>>] :
        sec \in {VerificationSecret, "wrong"}, tk \in TaskIds, rd \in Rounds,
        n \in Nonces, b \in {BriefPlain, Space1}, c \in ChecksLists,
        u \in {UrlHttp, UrlNoScheme}}

\* the requests of two clients: two for one repository, one for another
RaceRequests(endpoint) ==
    {[endpoint |-> endpoint, email |-> c[1], secret |-> VerificationSecret,
      task |-> c[3], round |-> 2, nonce |-> NonceLong, brief |-> c[2],
      checks |-> <<>>, evaluation_url |-> UrlHttp, attachments |-> <<>>] :
        c \in {<<"a@x", BriefPlain, TaskIdTestApp>>,
               <<"b@x", BriefTitled, TaskIdTestApp>>,
               <<"c@x", BriefPlain, TaskIdOther>>}}

RequestsIn(e, endpoint) ==
    IF e = "race" THEN RaceRequests(endpoint) ELSE Requests(endpoint)

\* the handler runs the pipeline itself and has not answered yet
AnswerAfterPipeline(t, r, answer) ==
    /\ inbox' = inbox \ {t}
    /\ req' = [req EXCEPT ![t] = r]
    /\ ack' = [ack EXCEPT ![t] = IF answer.status = "accepted" THEN @ ELSE answer]
    /\ pc' = [pc EXCEPT ![t] =
            IF answer.status = "accepted" THEN "generating" ELSE "rejected"]

\* the request is answered; an accepted one is handed to the background task,
\* which starts after the answer is sent
Answer(t, r, answer) ==
    /\ inbox' = inbox \ {t}
    /\ req' = [req EXCEPT ![t] = r]
    /\ ack' = [ack EXCEPT ![t] = answer]
    /\ pc' = [pc EXCEPT ![t] =
            IF answer.status = "accepted" THEN "generating" ELSE "rejected"]

\* lines 705-742
handle_task(t) ==
    /\ LoopFree(t)
    /\ t \in inbox
    /\ pc[t] = "idle"
    /\ \E r \in RequestsIn(env, "task") : Answer(t, r, TaskGate(r, t))
    /\ UNCHANGED <<cfg, env, gen_vars, ntf_vars, repo_vars>>

\* lines 785-822
handle_revision(t) ==
    /\ LoopFree(t)
    /\ t \in inbox
    /\ pc[t] = "idle"
    /\ \E r \in RequestsIn(env, "revise") : Answer(t, r, RevisionGate(r, t))
    /\ UNCHANGED <<cfg, env, gen_vars, ntf_vars, repo_vars>>

----------------------------------------------------------------------------
(* Specification of one call of generate_app_code *)

Configs == [openai : BOOLEAN, aipipe_token : BOOLEAN, deepseek_key : BOOLEAN]

NoRequest ==
    [endpoint |-> "none", email |-> "", secret |-> "", task |-> <<>>, round |-> 0,
     nonce |-> <<>>, brief |-> <<>>, checks |-> <<>>, evaluation_url |-> "",
     attachments |-> <<>>]

GenRequests ==
    {[NoRequest EXCEPT !.endpoint = "task", !.round = 1, !.brief = b,
                       !.checks = c, !.attachments = a] :
        b \in Briefs, c \in ChecksLists, a \in AttachmentLists}

NoName == <<>>

InitGenVars ==
    /\ repo_name = [t \in Tasks |-> NoName]
    /\ calls = [t \in Tasks |-> <<>>]
    /\ fallback_reason = [t \in Tasks |-> "none"]
    /\ aipipe_how = [t \in Tasks |-> "none"]
    /\ aipipe_result = [t \in Tasks |-> Unset]
    /\ deepseek_how = [t \in Tasks |-> "none"]
    /\ deepseek_result = [t \in Tasks |-> Unset]
    /\ openai_content = [t \in Tasks |-> Unset]
    /\ generated_content = [t \in Tasks |-> Unset]
    /\ files = [t \in Tasks |-> NoFiles]
    /\ gen_outcome = [t \in Tasks |-> "none"]

NoPayload ==
    [email |-> "", task |-> <<>>, round |-> 0, nonce |-> <<>>, repo_url |-> <<>>,
     commit_sha |-> "", pages_url |-> <<>>]

InitNtfVars ==
    /\ payload = [t \in Tasks |-> NoPayload]
    /\ attempt = [t \in Tasks |-> 0]
    /\ posts = [t \in Tasks |-> <<>>]
    /\ sleeps = [t \in Tasks |-> <<>>]
    /\ notify_ret = [t \in Tasks |-> "none"]

NoResult == [repo_url |-> <<>>, pages_url |-> <<>>]

\* a repository an earlier build of the same task and nonce left behind
SeedRepo ==
    [exists |-> TRUE,
     tree |-> Put(GenerateFiles(Str(<<"o">>), BriefPlain, <<>>), WorkflowPath, WorkflowContent),
     pages |-> TRUE]

\* a repository a build left behind when it failed after its first file
PartialRepo ==
    [SeedRepo EXCEPT !.tree = [f \in {"README.md", WorkflowPath, "index.html"} |->
                                    SeedRepo.tree[f]],
                     !.pages = FALSE]

InitRepoVars ==
    /\ repo_ops = [t \in Tasks |-> <<>>]
    /\ file_i = [t \in Tasks |-> 0]
    /\ file_sha = [t \in Tasks |-> Unset]
    /\ publish_result = [t \in Tasks |-> NoResult]

\* no request is awaited and the account is empty
InitNoPipeline ==
    /\ inbox = {}
    /\ ack = [t \in Tasks |-> NoAck]
    /\ repos = [n \in RepoNames |-> NoRepo]
    /\ InitRepoVars

InitGen ==
    /\ cfg \in Configs
    /\ env = "wide"
    /\ \E r \in GenRequests :
          req = [t \in Tasks |-> IF t = 1 THEN r ELSE NoRequest]
    /\ pc = [t \in Tasks |-> IF t = 1 THEN "generating" ELSE "idle"]
    /\ InitGenVars
    /\ InitNtfVars
    /\ InitNoPipeline

NextGen ==
    \E t \in Tasks :
        \/ CallOpenAI(t)
        \/ CallAIPipe(t)
        \/ CallDeepSeek(t)

SpecGen == InitGen /\ [][NextGen]_vars

----------------------------------------------------------------------------
(* Specification of one call of notify_evaluation_api *)

Emails == {"a@x"}

NoCredentials == [openai |-> FALSE, aipipe_token |-> FALSE, deepseek_key |-> FALSE]

NotifyRequests ==
    {[NoRequest EXCEPT !.endpoint = ep, !.round = IF ep = "task" THEN 1 ELSE 2,
                       !.email = em, !.brief = BriefPlain, !.evaluation_url = u] :
        ep \in {"task", "revise"}, em \in Emails, u \in {UrlHttp, UrlHttps, UrlNoScheme}}

InitNotify ==
    /\ cfg = NoCredentials
    /\ env = "wide"
    /\ \E r \in NotifyRequests :
          /\ req = [t \in Tasks |-> IF t = 1 THEN r ELSE NoRequest]
          /\ payload = [t \in Tasks |-> IF t = 1 THEN PayloadOf(r, <<"r">>, <<"p">>)
                                                ELSE NoPayload]
    /\ pc = [t \in Tasks |-> IF t = 1 THEN "notifying" ELSE "idle"]
    /\ InitGenVars
    /\ attempt = [t \in Tasks |-> 0]
    /\ posts = [t \in Tasks |-> <<>>]
    /\ sleeps = [t \in Tasks |-> <<>>]
    /\ notify_ret = [t \in Tasks |-> "none"]
    /\ InitNoPipeline

NextNotify ==
    \E t \in Tasks :
        \/ NotifyPost(t)
        \/ NotifyWake(t)

SpecNotify == InitNotify /\ [][NextNotify]_vars

----------------------------------------------------------------------------
(* Specification of the service: one request and its background task *)

AllCredentials == [openai |-> TRUE, aipipe_token |-> TRUE, deepseek_key |-> TRUE]

Init ==
    /\ cfg \in {NoCredentials, AllCredentials}
    /\ env = "narrow"
    /\ pc = [t \in Tasks |-> "idle"]
    /\ req = [t \in Tasks |-> NoRequest]
    /\ inbox = {1}
    /\ ack = [t \in Tasks |-> NoAck]
    /\ repos \in [RepoNames -> {NoRepo, SeedRepo, PartialRepo}]
    /\ repos[sanitize_repo_name(TaskIdOther, NonceLong)] = NoRepo
    /\ InitGenVars
    /\ InitNtfVars
    /\ InitRepoVars

Next ==
    \E t \in Tasks :
        \/ handle_task(t)
        \/ handle_revision(t)
        \/ CallOpenAI(t)
        \/ CallAIPipe(t)
        \/ CallDeepSeek(t)
        \/ CreateRepo(t)
        \/ CreateReadme(t)
        \/ CreateWorkflow(t)
        \/ CreateFile(t)
        \/ EnablePages(t)
        \/ GetRepo(t)
        \/ GetContents(t)
        \/ UpdateFile(t)
        \/ CreateMissing(t)
        \/ ReviseReadmeGet(t)
        \/ ReviseReadmePut(t)
        \/ NotifyPost(t)
        \/ NotifyWake(t)

Spec == Init /\ [][Next]_vars

----------------------------------------------------------------------------
(* The service when every call a background task makes returns or fails:    *)
(* the event loop runs a task that can take a step.  No request has to      *)
(* arrive.                                                                  *)

\* a step of the background task of t
TaskStep(t) ==
    \/ CallOpenAI(t)
    \/ CallAIPipe(t)
    \/ CallDeepSeek(t)
    \/ CreateRepo(t)
    \/ CreateReadme(t)
    \/ CreateWorkflow(t)
    \/ CreateFile(t)
    \/ EnablePages(t)
    \/ GetRepo(t)
    \/ GetContents(t)
    \/ UpdateFile(t)
    \/ CreateMissing(t)
    \/ ReviseReadmeGet(t)
    \/ ReviseReadmePut(t)
    \/ NotifyPost(t)
    \/ NotifyWake(t)

SpecLive == Init /\ [][Next]_vars /\ \A t \in Tasks : WF_vars(TaskStep(t))

----------------------------------------------------------------------------
(* Specification of the naming of the repository: one task, whose task id   *)
(* and nonce range over short texts, generates and computes its name        *)

NameAlphabet == {"A", "b", "7", "-", " ", "!"}

RECURSIVE TextsUpTo(_)
TextsUpTo(n) ==
    IF n = 0 THEN {<<>>}
    ELSE LET shorter == TextsUpTo(n - 1)
         IN shorter \cup {s \o <<c>> : s \in shorter, c \in NameAlphabet}

NameTasks == TextsUpTo(MaxNameLen) \cup {TaskIdTestApp}

\* shorter than the prefix taken, as long as it, and longer
NameNonces ==
    {<<>>, <<"N", "!">>, <<"a", "b", "c", "1", "2", "3", "4", "5">>, NonceLong}

OnlyOpenAI == [openai |-> TRUE, aipipe_token |-> FALSE, deepseek_key |-> FALSE]

InitName ==
    /\ cfg \in {OnlyOpenAI, AllCredentials}
    /\ env = "calm"
    /\ pc = [t \in Tasks |-> IF t = 1 THEN "generating" ELSE "idle"]
    /\ \E tk \in NameTasks, n \in NameNonces :
          req = [t \in Tasks |->
                    IF t = 1
                    THEN [NoRequest EXCEPT !.endpoint = "task", !.round = 1,
                                           !.secret = VerificationSecret,
                                           !.brief = BriefPlain, !.task = tk,
                                           !.nonce = n, !.evaluation_url = UrlHttp]
                    ELSE NoRequest]
    /\ inbox = {}
    /\ ack = [t \in Tasks |-> IF t = 1 THEN Accept(AcceptedMessage("task"), 1) ELSE NoAck]
    /\ repos \in {[n \in RepoNames |-> NoRepo], [n \in RepoNames |-> SeedRepo]}
    /\ InitGenVars
    /\ InitNtfVars
    /\ InitRepoVars

NextName == \E t \in Tasks : CallOpenAI(t)

SpecName == InitName /\ [][NextName]_vars

----------------------------------------------------------------------------
(* Specification of a build and a revision with the same brief and checks,  *)
(* each for a repository the account does not have: both are accepted and   *)
(* neither has made its first call                                          *)

InitEquiv ==
    /\ cfg = OnlyOpenAI
    /\ env = "calm"
    /\ pc = [t \in Tasks |-> IF t \in {1, 2} THEN "generating" ELSE "idle"]
    /\ \E b \in Briefs, c \in ChecksLists :
          req = [t \in Tasks |->
                    IF t \in {1, 2}
                    THEN [NoRequest EXCEPT
                            !.endpoint = IF t = 1 THEN "task" ELSE "revise",
                            !.round = 2, !.email = "a@x",
                            !.secret = VerificationSecret, !.brief = b, !.checks = c,
                            !.task = IF t = 1 THEN TaskIdTestApp ELSE TaskIdOther,
                            !.nonce = NonceLong, !.evaluation_url = UrlHttp]
                    ELSE NoRequest]
    /\ inbox = {}
    /\ ack = [t \in Tasks |->
                IF t \in {1, 2} THEN Accept(AcceptedMessage(req[t].endpoint), t) ELSE NoAck]
    /\ repos = [n \in RepoNames |-> NoRepo]
    /\ InitGenVars
    /\ InitNtfVars
    /\ InitRepoVars

NextEquiv ==
    \E t \in Tasks :
        \/ CallOpenAI(t)
        \/ GetRepo(t)
        \/ CreateRepo(t)
        \/ CreateReadme(t)
        \/ CreateWorkflow(t)
        \/ CreateFile(t)
        \/ EnablePages(t)
        \/ NotifyPost(t)

SpecEquiv == InitEquiv /\ [][NextEquiv]_vars

----------------------------------------------------------------------------
(* Specification of revisions of one repository the account has: every task *)
(* is an accepted revision of the same task id and nonce, with its own      *)
(* brief and its own round, and none has made its first call                *)

InitSeq ==
    /\ cfg = OnlyOpenAI
    /\ env = "calm"
    /\ pc = [t \in Tasks |-> "generating"]
    /\ \E bs \in [Tasks -> Briefs], c \in ChecksLists :
          req = [t \in Tasks |->
                    [NoRequest EXCEPT
                        !.endpoint = "revise", !.round = t + 1, !.email = "a@x",
                        !.secret = VerificationSecret, !.brief = bs[t], !.checks = c,
                        !.task = TaskIdTestApp, !.nonce = NonceLong,
                        !.evaluation_url = UrlHttp]]
    /\ inbox = {}
    /\ ack = [t \in Tasks |-> Accept(AcceptedMessage("revise"), t)]
    /\ \E r \in {SeedRepo, PartialRepo} :
          repos = [n \in RepoNames |->
                    IF n = sanitize_repo_name(TaskIdTestApp, NonceLong) THEN r ELSE NoRepo]
    /\ InitGenVars
    /\ InitNtfVars
    /\ InitRepoVars

NextSeq ==
    \E t \in Tasks :
        \/ CallOpenAI(t)
        \/ GetRepo(t)
        \/ GetContents(t)
        \/ UpdateFile(t)
        \/ CreateMissing(t)
        \/ ReviseReadmeGet(t)
        \/ ReviseReadmePut(t)
        \/ NotifyPost(t)

SpecSeq == InitSeq /\ [][NextSeq]_vars

----------------------------------------------------------------------------
(* Specification of the service with two requests *)

InitTwo ==
    /\ cfg = AllCredentials
    /\ env = "race"
    /\ pc = [t \in Tasks |-> "idle"]
    /\ req = [t \in Tasks |-> NoRequest]
    /\ inbox = {1, 2}
    /\ ack = [t \in Tasks |-> NoAck]
    /\ repos \in [RepoNames -> {NoRepo, PartialRepo}]
    /\ repos[sanitize_repo_name(TaskIdOther, NonceLong)] = NoRepo
    /\ InitGenVars
    /\ InitNtfVars
    /\ InitRepoVars

SpecTwo == InitTwo /\ [][Next]_vars


----------------------------------------------------------------------------
(* Specification of one call of generate_app_code with no credential: the   *)
(* brief ranges over short texts, with and without fences                   *)

MockBriefs == Briefs \cup Concats(MaxPieces)

MockChecks == {[i \in 1..n |-> Check(i)] : n \in 0..(MaxChecks + 1)}

MockRequests ==
    {[NoRequest EXCEPT !.endpoint = "task", !.round = 1, !.brief = b,
                       !.checks = c, !.attachments = a] :
        b \in MockBriefs, c \in MockChecks, a \in AttachmentLists}

InitMock ==
    /\ cfg = NoCredentials
    /\ env = "calm"
    /\ \E r \in MockRequests :
          req = [t \in Tasks |-> IF t = 1 THEN r ELSE NoRequest]
    /\ pc = [t \in Tasks |-> IF t = 1 THEN "generating" ELSE "idle"]
    /\ InitGenVars
    /\ InitNtfVars
    /\ InitNoPipeline

NextMock ==
    \E t \in Tasks :
        \/ CallAIPipe(t)
        \/ CallDeepSeek(t)

SpecMock == InitMock /\ [][NextMock]_vars

----------------------------------------------------------------------------
(* Properties of one call of generate_app_code *)

Called(t, who) == \E i \in 1..Len(calls[t]) : calls[t][i] = who

\* criteria (a) and (b) of the acceptance of provider A's text, spelled out
MarkerInFirst200(s) ==
    \E i \in 0..(200 - 21) :
        /\ i + 21 <= Len(s)
        /\ SubSeq(s, i + 1, i + 21) = Marker

CriteriaHold(s) ==
    /\ s # <<>>
    /\ s[1] # "{"
    /\ ~MarkerInFirst200(s)

\* C1: fallback ordering.  Provider B is invoked only after provider A, and only
\* from a point where A's text failed the criteria; when the primary provider is
\* unconfigured or raised, a finished call has invoked A; a text of A that meets
\* the criteria is never followed by a call of B.
C1_FallbackOrder ==
    \A t \in Tasks :
        /\ \A j \in 1..Len(calls[t]) :
              calls[t][j] = "deepseek" =>
                  \E i \in 1..(j - 1) : calls[t][i] = "aipipe"
        /\ pc[t] = "deepseek" =>
              /\ Called(t, "aipipe")
              /\ aipipe_result[t].k = "str"
              /\ ~CriteriaHold(aipipe_result[t].s)
        /\ (gen_outcome[t] # "none" /\ openai_content[t] = Unset) =>
              Called(t, "aipipe")
        /\ (aipipe_result[t].k = "str" /\ CriteriaHold(aipipe_result[t].s)) =>
              /\ ~Called(t, "deepseek")
              /\ pc[t] # "deepseek"

\* the primary provider raised, A was rejected and B has been invoked
C1_Witness ==
    /\ fallback_reason[1] = "quota"
    /\ calls[1] = <<"openai", "aipipe", "deepseek">>
    /\ aipipe_how[1] = "value"

\* C2: provider A's text is returned, without a call of B, exactly when it
\* meets criteria (a) and (b); otherwise B is called and the value returned
\* is B's.
C2_AcceptIffCriteria ==
    \A t \in Tasks :
        /\ aipipe_result[t].k = "str" =>
              IF CriteriaHold(aipipe_result[t].s)
              THEN /\ generated_content[t] = aipipe_result[t]
                   /\ ~Called(t, "deepseek")
                   /\ pc[t] # "deepseek"
              ELSE /\ pc[t] = "deepseek"
                   /\ generated_content[t] = Unset
        /\ Called(t, "deepseek") =>
              /\ generated_content[t] = deepseek_result[t]
              /\ deepseek_result[t] # Unset

\* A's text holds the marker, but only across the end of the first 200
\* characters, and it is returned
C2_Witness ==
    /\ aipipe_result[1] = Str(Pad \o Marker)
    /\ generated_content[1] = Str(Pad \o Marker)
    /\ gen_outcome[1] = "returned"

\* C3 (as claimed): when the primary provider did not return, whatever the
\* providers A and B do, the call does not end in a generation failure.
C3_NoGenerationFailure ==
    \A t \in Tasks :
        openai_content[t] = Unset => gen_outcome[t] # "raised"

\* C4: a returned mapping has exactly the five keys.
C4_ExactKeys ==
    \A t \in Tasks :
        gen_outcome[t] = "returned" =>
            DOMAIN files[t] =
                {"index.html", "styles.css", "script.js", "README.md", "LICENSE"}

\* a mapping returned for a request without checks and without attachments,
\* with content supplied by provider B
C4_Witness ==
    /\ gen_outcome[1] = "returned"
    /\ req[1].checks = <<>>
    /\ req[1].attachments = <<>>
    /\ Called(1, "deepseek")
    /\ files[1] # NoFiles

\* C5 (as claimed): index.html of a returned mapping is present and non-empty.
C5_IndexHtmlNonEmpty ==
    \A t \in Tasks :
        gen_outcome[t] = "returned" =>
            /\ "index.html" \in DOMAIN files[t]
            /\ files[t]["index.html"] # Str(<<>>)

\* h occurs in c as a contiguous part
IsPartOf(h, c) ==
    \E i \in 0..(Len(c) - Len(h)) : \A j \in 1..Len(h) : c[i + j] = h[j]

HasFence(c) ==
    \E i \in 1..(Len(c) - 2) : c[i] = BQ /\ c[i + 1] = BQ /\ c[i + 2] = BQ

\* C6: when the primary provider returned a text, no fallback provider is
\* invoked and index.html is made of that text: the text itself when it has no
\* fence, a part of it otherwise.
C6_PrimaryStopsChain ==
    \A t \in Tasks :
        openai_content[t].k = "str" =>
            /\ calls[t] = <<"openai">>
            /\ gen_outcome[t] = "returned"
            /\ generated_content[t] = openai_content[t]
            /\ files[t]["index.html"].k = "str"
            /\ IF HasFence(openai_content[t].s)
               THEN IsPartOf(files[t]["index.html"].s, openai_content[t].s)
               ELSE files[t]["index.html"] = openai_content[t]

\* the primary provider returned a fenced text while both fallbacks had credentials
C6_Witness ==
    /\ openai_content[1] = Str(HtmlFence \o PlainX \o Fence)
    /\ files[1] # NoFiles
    /\ files[1]["index.html"] = Str(PlainX)
    /\ cfg.aipipe_token
    /\ cfg.deepseek_key


----------------------------------------------------------------------------
(* Properties of one call of notify_evaluation_api *)

Delivered200(t) == \E i \in 1..Len(posts[t]) : posts[t][i] = Response(200)

IsPrefixOf(a, b) == Len(a) <= Len(b) /\ \A i \in 1..Len(a) : a[i] = b[i]

\* C7: at most 5 deliveries; when all of them fail there are exactly 5, the
\* waits between them are 1, 2, 4, 8 (none after the fifth) and the result is false.
C7_RetryBound ==
    \A t \in Tasks :
        /\ Len(posts[t]) <= 5
        /\ IsPrefixOf(sleeps[t], <<1, 2, 4, 8>>)
        /\ Len(sleeps[t]) <= Len(posts[t])
        /\ notify_ret[t] = "false" =>
              /\ Len(posts[t]) = 5
              /\ sleeps[t] = <<1, 2, 4, 8>>
              /\ ~Delivered200(t)
        /\ (pc[t] = "done" /\ posts[t] # <<>> /\ ~Delivered200(t)) =>
              /\ notify_ret[t] = "false"
              /\ Len(posts[t]) = 5

\* five failed deliveries, of both kinds, ended the call with false
C7_Witness ==
    /\ notify_ret[1] = "false"
    /\ Len(posts[1]) = 5
    /\ posts[1][1] = Exc("Timeout")
    /\ posts[1][5] = Response(500)
    /\ sleeps[1] = <<1, 2, 4, 8>>

\* C8: the result is true exactly when a delivery got status 200; the 200 is
\* the last delivery and no wait follows it; any other outcome with attempts
\* left leads to a retry.
C8_TrueIff200 ==
    \A t \in Tasks :
        /\ notify_ret[t] = "true" <=> Delivered200(t)
        /\ \A i \in 1..Len(posts[t]) :
              posts[t][i] = Response(200) =>
                  /\ i = Len(posts[t])
                  /\ pc[t] = "done"
                  /\ Len(sleeps[t]) = i - 1
        /\ (posts[t] # <<>> /\ ~Delivered200(t) /\ Len(posts[t]) < 5) =>
              /\ pc[t] \in {"sleeping", "notifying"}
              /\ notify_ret[t] = "none"
              /\ Len(sleeps[t]) \in {Len(posts[t]) - 1, Len(posts[t])}

\* a 201 and a connection error were retried, the third delivery got 200
C8_Witness ==
    /\ notify_ret[1] = "true"
    /\ posts[1] = <<Response(201), Exc("ConnectionError"), Response(200)>>
    /\ sleeps[1] = <<1, 2>>

\* C9: no outcome of a delivery makes notify_evaluation_api raise; a finished
\* call has returned true or false.
C9_NeverRaises ==
    \A t \in Tasks :
        /\ notify_ret[t] # "raised"
        /\ posts[t] # <<>> => pc[t] \in {"notifying", "sleeping", "done"}
        /\ (pc[t] = "done" /\ posts[t] # <<>>) => notify_ret[t] \in {"true", "false"}

\* every delivery ended in a transport-level failure and the call returned false
C9_Witness ==
    /\ notify_ret[1] = "false"
    /\ \A i \in 1..Len(posts[1]) : posts[1][i].k # "http"
    /\ \E i \in 1..Len(posts[1]) : posts[1][i].k = "ConnectionError"

----------------------------------------------------------------------------
(* The background task, under Spec *)

AppFiles == {"index.html", "styles.css", "script.js", "LICENSE"}

\* a logged backend answer that create_github_repo and update_github_repo both
\* turn into an exception: the repository could not be created or fetched, or
\* a commit of an application file failed with something that is neither
\* "already exists" nor "not found"
RaisesInPublishing(entry) ==
    \/ entry[1] = "create_repo" /\ entry[3] # "ok"
    \/ entry[1] = "get_repo" /\ entry[3] \notin {"ok", "github_404"}
    \/ /\ entry[1] \in {"create_file", "update_file", "get_contents"}
       /\ entry[2] \in AppFiles
       /\ entry[3] \in {"github_500", "network", "assertion"}

PublishingRaised(t) ==
    \E i \in 1..Len(repo_ops[t]) : RaisesInPublishing(repo_ops[t][i])

NotContacted(t) ==
    /\ posts[t] = <<>>
    /\ sleeps[t] = <<>>
    /\ notify_ret[t] = "none"

\* C10: in the build and in the revise background task alike, when Generating
\* or Publishing raises, the task ends failed, its callback URL is never
\* contacted, and after a failure of Generating no repository operation has
\* been performed for it.
C10_FailureSkipsRest ==
    \A t \in Tasks :
        /\ gen_outcome[t] = "raised" =>
              /\ pc[t] = "failed"
              /\ repo_ops[t] = <<>>
              /\ payload[t] = NoPayload
        /\ PublishingRaised(t) =>
              /\ pc[t] = "failed"
              /\ RaisesInPublishing(repo_ops[t][Len(repo_ops[t])])
              /\ publish_result[t] = NoResult
        /\ pc[t] = "failed" => NotContacted(t)

\* a revision failed in Publishing after an earlier backend call had succeeded
C10_Witness ==
    \E t \in Tasks :
        /\ req[t].endpoint = "revise"
        /\ pc[t] = "failed"
        /\ gen_outcome[t] = "returned"
        /\ Len(repo_ops[t]) >= 2
        /\ repo_ops[t][1][3] = "ok"
        /\ PublishingRaised(t)
        /\ NotContacted(t)

GeneratingPcs == {"generating", "fallback", "deepseek"}

PublishingPcs ==
    {"publishing", "create_repo", "create_readme", "create_workflow", "create_files",
     "enable_pages", "update_files", "update_file", "create_missing",
     "revise_readme", "revise_readme_put"}

NotifyingPcs == {"notifying", "sleeping"}

\* the state of one task keeps the order generate, publish, notify
InOrder(t) ==
    /\ (repo_ops[t] # <<>> \/ pc[t] \in PublishingPcs) =>
          /\ gen_outcome[t] = "returned"
          /\ DOMAIN files[t] = FileNames
    /\ pc[t] \in GeneratingPcs => repo_ops[t] = <<>>
    /\ (posts[t] # <<>> \/ pc[t] \in NotifyingPcs) =>
          /\ publish_result[t] # NoResult
          /\ repo_ops[t] # <<>>
    /\ pc[t] \in GeneratingPcs \cup PublishingPcs =>
          /\ publish_result[t] = NoResult
          /\ posts[t] = <<>>

\* a step of the model keeps the order: the provider log is closed once a
\* repository operation is logged, the repository log once the callback is
\* reached
KeepsOrder(t) ==
    /\ repo_ops[t] # <<>> => calls'[t] = calls[t] /\ files'[t] = files[t]
    /\ (posts[t] # <<>> \/ pc[t] \in NotifyingPcs) =>
          /\ repo_ops'[t] = repo_ops[t]
          /\ publish_result'[t] = publish_result[t]
          /\ payload'[t] = payload[t]

\* C11: within one task no repository operation starts before generation has
\* returned the file mapping, and no callback delivery starts before the
\* publish or update step has returned its two URLs.
C11_StepsInOrder ==
    /\ [](\A t \in Tasks : InOrder(t))
    /\ [][\A t \in Tasks : KeepsOrder(t)]_vars

\* a revision has gone through its three steps and was delivered
C11_Witness ==
    \E t \in Tasks :
        /\ req[t].endpoint = "revise"
        /\ pc[t] = "done"
        /\ notify_ret[t] = "true"
        /\ calls[t] # <<>>
        /\ Len(repo_ops[t]) > Len(FileOrder)
        /\ Len(posts[t]) >= 2

----------------------------------------------------------------------------
(* Two tasks, under SpecTwo *)

\* the URLs of the repository named after a request
UrlsOf(r) ==
    [repo_url |-> RepoUrl(sanitize_repo_name(r.task, r.nonce)),
     pages_url |-> PagesUrl(sanitize_repo_name(r.task, r.nonce))]

\* C12: the payload a task sends carries the two URLs its own publish or update
\* step returned, the fixed reference "main", and the email, task, round and
\* nonce of its own request; with two tasks in flight none of these comes from
\* the other task.
C12_PayloadOfOwnTask ==
    \A t \in Tasks :
        (posts[t] # <<>> \/ pc[t] \in NotifyingPcs) =>
            /\ payload[t].email = req[t].email
            /\ payload[t].task = req[t].task
            /\ payload[t].round = req[t].round
            /\ payload[t].nonce = req[t].nonce
            /\ payload[t].commit_sha = "main"
            /\ payload[t].repo_url = publish_result[t].repo_url
            /\ payload[t].pages_url = publish_result[t].pages_url
            /\ publish_result[t] = UrlsOf(req[t])

\* the first task waits between two posts while the second, accepted
\* for another repository and another client, has posted too
C12_Witness ==
    /\ pc[1] = "sleeping"
    /\ posts[1] # <<>>
    /\ posts[2] # <<>>
    /\ req[1].email # req[2].email
    /\ req[1].endpoint # req[2].endpoint
    /\ publish_result[1].repo_url # publish_result[2].repo_url

----------------------------------------------------------------------------
(* The two entry points, under Spec *)

Handled(t) == req[t] # NoRequest

BadSecret(r) == r.secret # VerificationSecret

BlankBrief(r) == \A i \in 1..Len(r.brief) : IsSpace(r.brief[i])

BadUrl(r) ==
    /\ Take(r.evaluation_url, 7) # <<"h", "t", "t", "p", ":", "/", "/">>
    /\ Take(r.evaluation_url, 8) # <<"h", "t", "t", "p", "s", ":", "/", "/">>

\* the task has had no effect outside the answer to its request
NoEffect(t) ==
    /\ calls[t] = <<>>
    /\ gen_outcome[t] = "none"
    /\ repo_ops[t] = <<>>
    /\ NotContacted(t)

\* C13: on both entry points a request that fails a gate (wrong secret, blank
\* brief, callback URL without http:// or https://, and for a revision a round
\* below 2) is rejected at once and has no generation, repository or callback
\* effect; a wrong secret is answered 401 whatever the other fields are.
C13_GatesRejectWithoutEffect ==
    \A t \in Tasks :
        Handled(t) =>
            /\ (\/ BadSecret(req[t])
                \/ BlankBrief(req[t])
                \/ BadUrl(req[t])
                \/ req[t].endpoint = "revise" /\ req[t].round < 2) =>
                    /\ pc[t] = "rejected"
                    /\ ack[t].status = "error"
                    /\ NoEffect(t)
            /\ BadSecret(req[t]) => ack[t].code = 401

\* C14: a revision with a round below 2 and a valid secret and brief is always
\* rejected with the reason "round 2+ only" and starts no pipeline, while a
\* build with round 1 and a valid secret, brief and callback URL is accepted.
C14_RoundGate ==
    \A t \in Tasks :
        (Handled(t) /\ ~BadSecret(req[t]) /\ ~BlankBrief(req[t])) =>
            /\ (req[t].endpoint = "revise" /\ req[t].round < 2) =>
                    /\ ack[t].code = 400
                    /\ ack[t].message = "Revision endpoint is for round 2+ only"
                    /\ pc[t] = "rejected"
                    /\ NoEffect(t)
            /\ (req[t].endpoint = "task" /\ req[t].round = 1 /\ ~BadUrl(req[t])) =>
                    /\ ack[t].status = "accepted"
                    /\ pc[t] # "rejected"

\* a revision with round 1 and a valid callback URL was rejected
C14_Witness ==
    \E t \in Tasks :
        /\ req[t].endpoint = "revise"
        /\ req[t].round = 1
        /\ ~BadSecret(req[t]) /\ ~BlankBrief(req[t]) /\ ~BadUrl(req[t])
        /\ pc[t] = "rejected"
        /\ ack[t].code = 400

\* C15: a request that passes the gate is answered {accepted, message, task_id}
\* before its pipeline does anything, and the answer is the same whatever the
\* pipeline does later: it never changes and carries nothing of the outcome.
C15_AckIndependent ==
    /\ [](\A t \in Tasks :
            (Handled(t) /\ pc[t] # "rejected") =>
                /\ ack[t] = [code |-> 200, status |-> "accepted",
                             message |-> AcceptedMessage(req[t].endpoint),
                             task_id |-> t])
    /\ [][\A t \in Tasks : Handled(t) => ack'[t] = ack[t]]_vars

\* an accepted build has failed in its pipeline
C15_Witness ==
    \E t \in Tasks :
        /\ req[t].endpoint = "task"
        /\ ack[t].status = "accepted"
        /\ pc[t] = "failed"
        /\ repo_ops[t] # <<>>

----------------------------------------------------------------------------
(* The name of the repository, under SpecName *)

IsAlnum(c) == c \in Digits \/ \E i \in 1..26 : c = UpperCase[i] \/ c = LowerCase[i]

\* the length of the run of letters and digits s starts with
RECURSIVE RunLen(_)
RunLen(s) == IF s = <<>> \/ ~IsAlnum(Head(s)) THEN 0 ELSE 1 + RunLen(Tail(s))

\* the runs of letters and digits of s, lower-cased, in order
RECURSIVE WordsOf(_)
WordsOf(s) ==
    IF s = <<>> THEN <<>>
    ELSE IF RunLen(s) = 0 THEN WordsOf(Tail(s))
    ELSE <<Lower(SubSeq(s, 1, RunLen(s)))>> \o WordsOf(SubSeq(s, RunLen(s) + 1, Len(s)))

EndsWith(s, e) == Len(e) <= Len(s) /\ SubSeq(s, Len(s) - Len(e) + 1, Len(s)) = e

----------------------------------------------------------------------------
(* update_github_repo for a repository that does not exist, under SpecEquiv *)

Finished(t) == pc[t] \in {"done", "failed"}

\* the backend gave the two logs the same answers, call by call
SameAnswers(a, b) ==
    \A i \in 1..(IF Len(a) < Len(b) THEN Len(a) ELSE Len(b)) : a[i][3] = b[i][3]

NameOf(r) == sanitize_repo_name(r.task, r.nonce)

\* C17: update_github_repo for a name the backend does not find performs the
\* operations create_github_repo performs for the same files, leaves the same
\* repository content and returns the same two URLs; no revision line is
\* added to README.md.
C17_UpdateOfAbsentIsCreate ==
    \A t \in Tasks, u \in Tasks :
        (/\ req[t].endpoint = "task" /\ req[u].endpoint = "revise"
         /\ Finished(t) /\ Finished(u)
         /\ gen_outcome[t] = "returned" /\ gen_outcome[u] = "returned"
         /\ files[t] = files[u]
         /\ repo_ops[u] # <<>> /\ repo_ops[u][1] = <<"get_repo", "", "github_404">>
         /\ SameAnswers(repo_ops[t], Tail(repo_ops[u]))) =>
            /\ Tail(repo_ops[u]) = repo_ops[t]
            /\ repos[NameOf(req[u])] = repos[NameOf(req[t])]
            /\ pc[u] = pc[t]
            /\ publish_result[u] = NoResult <=> publish_result[t] = NoResult
            /\ publish_result[u] # NoResult => publish_result[u] = UrlsOf(req[u])
            /\ publish_result[t] # NoResult => publish_result[t] = UrlsOf(req[t])
            /\ "README.md" \in DOMAIN repos[NameOf(req[u])].tree =>
                  repos[NameOf(req[u])].tree["README.md"] = files[u]["README.md"]

\* both calls returned after the same backend answers, one of them a failure
\* that is logged and dropped
C17_Witness ==
    /\ pc[1] = "done" /\ pc[2] = "done"
    /\ req[1].endpoint = "task" /\ req[2].endpoint = "revise"
    /\ repo_ops[2][1] = <<"get_repo", "", "github_404">>
    /\ Tail(repo_ops[2]) = repo_ops[1]
    /\ \E i \in 1..Len(repo_ops[1]) : repo_ops[1][i][3] = "github_500"
    /\ repos[NameOf(req[2])].exists

----------------------------------------------------------------------------
(* create_github_repo, under Spec *)

\* the task has called create_github_repo
CreateStarted(t) ==
    \E i \in 1..Len(repo_ops[t]) : repo_ops[t][i][1] = "create_repo"

\* the repository was created by the task
Created(t) ==
    \E i \in 1..Len(repo_ops[t]) : repo_ops[t][i] = <<"create_repo", "", "ok">>

LastOp(t) == repo_ops[t][Len(repo_ops[t])]

\* the publish step of the task is over
Published(t) == gen_outcome[t] = "returned" /\ pc[t] \notin PublishingPcs

\* C18 as stated: a failure of the pages request or of the workflow commit
\* never fails create_github_repo, which commits the files and returns, and
\* the creation of the repository is the only step whose failure fails it.
C18_OnlyCreationFatal ==
    \A t \in Tasks :
        (CreateStarted(t) /\ Published(t)) =>
            /\ pc[t] = "failed" <=> ~Created(t)
            /\ Created(t) =>
                  /\ publish_result[t] # NoResult
                  /\ FileNames \subseteq DOMAIN repos[repo_name[t]].tree

\* the last answer in the log is one that create_github_repo does not catch
FatalInCreate(t) ==
    LET n == Len(repo_ops[t])
        e == repo_ops[t][n]
    IN \/ e[1] = "create_repo" /\ e[3] # "ok"
       \/ e[1] = "create_file" /\ e[2] = "README.md" /\ e[3] # "ok"
       \/ e[1] = "create_file" /\ e[2] \in AppFiles /\ e[3] \notin {"ok", "github_422"}
       \/ /\ e[1] = "get_user" /\ e[3] # "ok"
          /\ n > 1 /\ repo_ops[t][n - 1][1] = "get_user"

\* C18 as amended: a failure of the pages request or of the workflow commit
\* never fails create_github_repo, which goes on to the file commits and to
\* its return; the call fails exactly when the creation of the repository
\* fails, the commit of README.md fails, the commit of another file fails
\* with anything but "already exists", or the login of the account cannot be
\* read for the URLs it returns.
C18_BestEffortSteps ==
    \A t \in Tasks :
        CreateStarted(t) =>
            /\ pc[t] = "failed" <=> FatalInCreate(t)
            /\ (LastOp(t)[1] = "create_file" /\ LastOp(t)[2] = WorkflowPath) =>
                  pc[t] = "create_files"
            /\ LastOp(t)[1] = "enable_pages" =>
                  /\ publish_result[t] # NoResult
                  /\ pc[t] # "failed"
            /\ (Published(t) /\ pc[t] # "failed") =>
                  /\ publish_result[t] = UrlsOf(req[t])
                  /\ FileNames \subseteq DOMAIN repos[repo_name[t]].tree

\* a build was delivered although the workflow commit and the pages request
\* both failed
C18_Witness ==
    \E t \in Tasks :
        /\ req[t].endpoint = "task"
        /\ pc[t] = "done"
        /\ <<"create_file", WorkflowPath, "github_500">> \in
              {repo_ops[t][i] : i \in 1..Len(repo_ops[t])}
        /\ <<"enable_pages", "", "github_500">> \in
              {repo_ops[t][i] : i \in 1..Len(repo_ops[t])}
        /\ WorkflowPath \notin DOMAIN repos[repo_name[t]].tree
        /\ FileNames \subseteq DOMAIN repos[repo_name[t]].tree

\* every answer the task got from the backend was success or "already exists"
OnlyAlreadyExists(t) ==
    \A i \in 1..Len(repo_ops[t]) : repo_ops[t][i][3] \in {"ok", "github_422"}

\* C19: a call of create_github_repo that meets nothing worse than "already
\* exists" answers, as a second call for the same name does, does not fail
\* the task: the files are in the repository afterwards and the task goes on
\* to its notification.
C19_SecondCreateProceeds ==
    \A t \in Tasks :
        (CreateStarted(t) /\ Published(t) /\ OnlyAlreadyExists(t)) =>
            /\ pc[t] \in NotifyingPcs \cup {"done"}
            /\ FileNames \subseteq DOMAIN repos[repo_name[t]].tree

----------------------------------------------------------------------------
(* two revisions of one repository, under SpecTwo *)

UpdatePcs ==
    {"update_files", "update_file", "create_missing", "revise_readme",
     "revise_readme_put"}

\* a step of the background task of t
BackgroundStep(t) ==
    \/ CallOpenAI(t)
    \/ CallAIPipe(t)
    \/ CallDeepSeek(t)
    \/ GetRepo(t)
    \/ GetContents(t)
    \/ UpdateFile(t)
    \/ CreateMissing(t)
    \/ ReviseReadmeGet(t)
    \/ ReviseReadmePut(t)

\* t and u are accepted revisions of the same repository
RevisePair(t, u) ==
    /\ t # u
    /\ req[t].endpoint = "revise" /\ req[u].endpoint = "revise"
    /\ pc[t] \notin {"idle", "rejected"} /\ pc[u] \notin {"idle", "rejected"}
    /\ sanitize_repo_name(req[t].task, req[t].nonce) =
          sanitize_repo_name(req[u].task, req[u].nonce)

\* C20: two revisions of one repository exclude each other nowhere: while
\* one is between the file updates of its loop, the other, accepted and not
\* yet through its own publish step, can take its next step, so that the
\* updates of the two interleave.
C20_UpdatesInterleave ==
    \A t, u \in Tasks :
        (/\ RevisePair(t, u)
         /\ pc[t] \in UpdatePcs
         /\ pc[u] \in GeneratingPcs \cup PublishingPcs) =>
            ENABLED BackgroundStep(u)

----------------------------------------------------------------------------
(* generate_app_code with no credential, under SpecMock *)

\* the lines "- <check>", one after the other
BulletLines(checks) ==
    IF checks = <<>> THEN <<>>
    ELSE <<"\n">> \o Join([i \in 1..Len(checks) |-> <<"-", " ">> \o checks[i]], <<"\n">>)
         \o <<"\n">>

\* C21: with no credential configured, provider A and then provider B are
\* run, each returns the placeholder page, A's is rejected for its marker,
\* and the mapping returned has the placeholder page as index.html and a
\* README.md with the brief and one bullet line per check, in order.
C21_PlaceholderServed ==
    \A t \in Tasks :
        pc[t] \notin {"idle", "generating", "deepseek"} =>
            LET page == _get_mock_response(Prompt(t))
            IN /\ calls[t] = <<"aipipe", "deepseek">>
               /\ deepseek_result[t] = Str(page)
               /\ MarkerInFirst200(page)
               /\ gen_outcome[t] = "returned"
               /\ files[t]["index.html"] = Str(page)
               /\ IsPartOf(req[t].brief, files[t]["README.md"].s)
               /\ IsPartOf(BulletLines(req[t].checks), files[t]["README.md"].s)

----------------------------------------------------------------------------
(* The post-processing of the surviving text, under SpecGen *)

\* 0-based offsets of the fences of c
FenceOffsets(c) ==
    {i \in 0..(Len(c) - 3) : c[i + 1] = BQ /\ c[i + 2] = BQ /\ c[i + 3] = BQ}

\* c has a fenced block: an opening fence and a closing fence after it
HasBlock(c) ==
    \E i, j \in FenceOffsets(c) : j >= i + 3

\* the contents of the first fenced block of c, without the language tag of
\* an html block
FirstBlock(c) ==
    LET open == Min(FenceOffsets(c))
        from == IF StartsWith(Drop(c, open), HtmlFence) THEN open + 7 ELSE open + 3
        close == Min({j \in FenceOffsets(c) : j >= from})
    IN SubSeq(c, from + 1, close)

\* C22: index.html is the contents of the first fenced block of the surviving
\* text (surrounding white space aside) when the text has a fenced block, and
\* the whole text unchanged otherwise.
C22_FirstBlockOrWhole ==
    \A t \in Tasks :
        (gen_outcome[t] = "returned" /\ generated_content[t].k = "str") =>
            LET c == generated_content[t].s
            IN files[t]["index.html"] =
                  IF HasBlock(c) THEN Str(Strip(FirstBlock(c))) ELSE Str(c)

----------------------------------------------------------------------------
(* update_github_repo for a repository that exists, under Spec *)

Ops(t) == repo_ops[t]

\* the task is a revision that found its repository
UpdatePath(t) == Len(Ops(t)) > 0 /\ Ops(t)[1] = <<"get_repo", "", "ok">>

\* positions of the log that belong to the loop over the files: the revision
\* note comes after the last file of the loop has been written
LoopOps(t) ==
    LET last == FileOrder[Len(FileOrder)]
        ends == {i \in 1..Len(Ops(t)) :
                    /\ Ops(t)[i][1] \in {"update_file", "create_file"}
                    /\ Ops(t)[i][2] = last /\ Ops(t)[i][3] = "ok"}
    IN IF ends = {} THEN 1..Len(Ops(t)) ELSE 1..Min(ends)

\* C23: after update_github_repo returned for a repository that exists, every
\* generated file is in the repository with the generated content (README.md
\* with or without the revision note); a file was overwritten with the token
\* read by the get_contents just before, or created when that read or the
\* write answered not found; and an error of the revision note, on its read or
\* on its write, leaves the call returning its URLs.
C23_UpdateWritesAll ==
    \A t \in Tasks :
        UpdatePath(t) =>
            /\ pc[t] = "update_file" =>
                  /\ Ops(t)[Len(Ops(t))] = <<"get_contents", FileOrder[file_i[t]], "ok">>
                  /\ file_sha[t] = ShaOf(repos[repo_name[t]].tree[FileOrder[file_i[t]]])
            /\ \A i \in 1..Len(Ops(t)) :
                  Ops(t)[i][1] = "update_file" =>
                      Ops(t)[i - 1] = <<"get_contents", Ops(t)[i][2], "ok">>
            /\ \A i \in LoopOps(t) :
                  (Ops(t)[i][1] = "create_file") =>
                      Ops(t)[i - 1][2] = Ops(t)[i][2] /\ Ops(t)[i - 1][3] = "github_404"
            /\ (Len(Ops(t)) > Len(FileOrder) /\ LoopOps(t) # 1..Len(Ops(t))) =>
                  (pc[t] \in {"revise_readme", "revise_readme_put"}
                   \/ publish_result[t] = UrlsOf(req[t]))
            /\ publish_result[t] # NoResult =>
                  /\ pc[t] # "failed"
                  /\ FileNames \subseteq DOMAIN repos[repo_name[t]].tree
                  /\ \A f \in FileNames :
                        /\ \E i \in LoopOps(t) :
                              /\ Ops(t)[i][1] \in {"update_file", "create_file"}
                              /\ Ops(t)[i][2] = f /\ Ops(t)[i][3] = "ok"
                        /\ \/ repos[repo_name[t]].tree[f] = files[t][f]
                           \/ /\ f = "README.md"
                              /\ repos[repo_name[t]].tree[f] =
                                    UpdatedReadme(files[t][f], req[t].round)

\* a revision returned after it overwrote some files, created the others and
\* failed to write the revision note
C23_Witness ==
    \E t \in Tasks :
        /\ UpdatePath(t)
        /\ publish_result[t] # NoResult
        /\ \E i, j \in LoopOps(t) :
              /\ Ops(t)[i][1] = "update_file" /\ Ops(t)[i][3] = "ok"
              /\ Ops(t)[j][1] = "create_file" /\ Ops(t)[j][3] = "ok"
        /\ Ops(t)[Len(Ops(t))] = <<"update_file", "README.md", "github_500">>
        /\ repos[repo_name[t]].tree["README.md"] = files[t]["README.md"]

----------------------------------------------------------------------------
(* A notification that fails, under Spec *)

\* every delivery of the task failed and no other will be made
AllDeliveriesFailed(t) ==
    /\ posts[t] # <<>>
    /\ pc[t] \notin NotifyingPcs
    /\ \A i \in 1..Len(posts[t]) :
          ~(posts[t][i].k = "http" /\ posts[t][i].status = 200)

\* from its first delivery on, a task changes nothing at the backend
NotifyKeepsRepository(t) ==
    (pc[t] \in NotifyingPcs \cup {"done"}) =>
        /\ repos' = repos
        /\ repo_ops'[t] = repo_ops[t]
        /\ publish_result'[t] = publish_result[t]

\* after the last failed delivery the task does nothing more
NothingAfterLastDelivery(t) ==
    AllDeliveriesFailed(t) =>
        /\ pc'[t] = pc[t]
        /\ posts'[t] = posts[t]
        /\ sleeps'[t] = sleeps[t]
        /\ notify_ret'[t] = notify_ret[t]

\* C24: when all deliveries of the notification failed, the task ended without
\* an exception (it is not failed), the repository of its publish step and the
\* files in it are as that step left them, and no further delivery is made.
C24_FailedNotifyKeepsAll ==
    /\ [](\A t \in Tasks :
            AllDeliveriesFailed(t) =>
                /\ pc[t] = "done"
                /\ notify_ret[t] = "false"
                /\ Len(posts[t]) = max_retries
                /\ repos[repo_name[t]].exists
                /\ FileNames \subseteq DOMAIN repos[repo_name[t]].tree)
    /\ [][\A t \in Tasks : NotifyKeepsRepository(t) /\ NothingAfterLastDelivery(t)]_vars

\* a build whose five deliveries were answered 500
C24_Witness ==
    \E t \in Tasks :
        /\ AllDeliveriesFailed(t)
        /\ req[t].endpoint = "task"
        /\ Len(posts[t]) = 5
        /\ \A f \in FileNames : repos[repo_name[t]].tree[f] = files[t][f]

----------------------------------------------------------------------------
(* No step of the pipeline is run twice, under Spec *)

\* how many entries of the sequence q satisfy Is
Count(q, Is(_)) == Cardinality({i \in 1..Len(q) : Is(q[i])})

\* the rank of the step a task is in
StepRank(t) ==
    IF pc[t] \in {"idle", "rejected"} THEN 0
    ELSE IF pc[t] \in GeneratingPcs THEN 1
    ELSE IF pc[t] \in PublishingPcs THEN 2
    ELSE IF pc[t] \in NotifyingPcs THEN 3
    ELSE 4

\* C25: per accepted task each provider is invoked at most once, the publish
\* step starts at most once (one create_repo and one get_repo at most), there
\* is one notification with at most 5 deliveries, a task never goes back to a
\* step it left, and what a step produced is not produced again.
C25_NoPipelineRetry ==
    /\ [](\A t \in Tasks :
            /\ \A who \in {"openai", "aipipe", "deepseek"} :
                  Count(calls[t], LAMBDA c : c = who) <= 1
            /\ Count(repo_ops[t], LAMBDA e : e[1] = "create_repo") <= 1
            /\ Count(repo_ops[t], LAMBDA e : e[1] = "get_repo") <= 1
            /\ Len(posts[t]) <= max_retries
            /\ Len(posts[t]) <= attempt[t] + 1)
    /\ [][\A t \in Tasks :
            /\ StepRank(t)' >= StepRank(t)
            /\ StepRank(t) = 4 => pc'[t] = pc[t]
            /\ StepRank(t) > 1 =>
                  /\ calls'[t] = calls[t]
                  /\ files'[t] = files[t]
                  /\ gen_outcome'[t] = gen_outcome[t]
            /\ StepRank(t) > 2 =>
                  /\ repo_ops'[t] = repo_ops[t]
                  /\ publish_result'[t] = publish_result[t]
                  /\ payload'[t] = payload[t]
            /\ attempt'[t] >= attempt[t]
            /\ StepRank(t) > 3 => posts'[t] = posts[t]]_vars

\* a task that used the three providers, created its repository and made
\* five deliveries
C25_Witness ==
    \E t \in Tasks :
        /\ calls[t] = <<"openai", "aipipe", "deepseek">>
        /\ Count(repo_ops[t], LAMBDA e : e[1] = "create_repo") = 1
        /\ Len(posts[t]) = 5
        /\ pc[t] = "done"

----------------------------------------------------------------------------
(* Termination, under SpecLive *)

Accepted(t) == pc[t] \notin {"idle", "rejected"}

\* C26: every accepted task ends done or failed, when every call it makes
\* returns or fails.
C26_Terminates ==
    \A t \in Tasks : Accepted(t) ~> (pc[t] \in {"done", "failed"})

\* a task that ended with its fifth delivery, the longest way to the end
C26_Witness ==
    \E t \in Tasks :
        /\ ack[t].status = "accepted"
        /\ pc[t] = "done"
        /\ notify_ret[t] = "true"
        /\ Len(posts[t]) = max_retries
        /\ Len(sleeps[t]) = max_retries - 1

----------------------------------------------------------------------------
(* Two builds of one name, under SpecTwo *)

\* t and u are accepted builds with the same task and nonce
BuildPair(t, u) ==
    /\ t # u
    /\ req[t].endpoint = "task" /\ req[u].endpoint = "task"
    /\ Accepted(t) /\ Accepted(u)
    /\ sanitize_repo_name(req[t].task, req[t].nonce) =
          sanitize_repo_name(req[u].task, req[u].nonce)

\* the task got as far as its notification
ReachedNotifying(t) == payload[t] # NoPayload

\* C27: of two builds with the same task and nonce at most one gets as far as
\* its notification; a build whose create_repo is refused because the name
\* exists ends failed, with no other call to the backend and no delivery to
\* its callback.
C27_OneBuildWins ==
    /\ \A t, u \in Tasks :
          BuildPair(t, u) => ~(ReachedNotifying(t) /\ ReachedNotifying(u))
    /\ \A t \in Tasks :
          (/\ req[t].endpoint = "task"
           /\ repo_ops[t] # <<>>
           /\ repo_ops[t][1] = <<"create_repo", "", "github_422">>) =>
                /\ pc[t] = "failed"
                /\ Len(repo_ops[t]) = 1
                /\ ~ReachedNotifying(t)
                /\ posts[t] = <<>>

\* one build delivered its notification and the other was refused the name
C27_Witness ==
    \E t, u \in Tasks :
        /\ BuildPair(t, u)
        /\ pc[t] = "done" /\ notify_ret[t] = "true"
        /\ repo_ops[t][1] = <<"create_repo", "", "ok">>
        /\ pc[u] = "failed"
        /\ repo_ops[u] = << <<"create_repo", "", "github_422">> >>

----------------------------------------------------------------------------
(* A file write that fails for good, under Spec *)

\* the last answer in the log of t is a fatal one to a read or a write of a
\* generated file: in create_github_repo a commit that failed with anything
\* but "already exists" (with anything, for README.md); in the loop of
\* update_github_repo a read or an update that failed with anything but "not
\* found", or a commit of a missing file that failed
FatalFileFailure(t) ==
    LET n == Len(Ops(t))
        e == Ops(t)[n]
    IN /\ n > 0
       /\ e[2] \in FileNames
       /\ IF Created(t)
          THEN \/ e[1] = "create_file" /\ e[2] = "README.md" /\ e[3] # "ok"
               \/ e[1] = "create_file" /\ e[2] # "README.md"
                     /\ e[3] \notin {"ok", "github_422"}
          ELSE /\ UpdatePath(t)
               /\ n \in LoopOps(t)
               /\ \/ e[1] \in {"get_contents", "update_file"}
                        /\ e[3] \notin {"ok", "github_404"}
                  \/ e[1] = "create_file" /\ e[3] # "ok"

\* the place of a file in the order the call writes the files in
WriteRank(t, f) ==
    IF Created(t) /\ f = "README.md" THEN 0
    ELSE CHOOSE i \in 1..Len(FileOrder) : FileOrder[i] = f

\* C28: a fatal failure of a file write partway through create_github_repo or
\* update_github_repo ends the call and the task at that file: what the call
\* wrote before stays in the repository, no later file is written, the pages
\* request is not made, the callback is not contacted, and the task does
\* nothing afterwards.
C28_FatalWriteStops ==
    /\ [](\A t \in Tasks :
            FatalFileFailure(t) =>
                LET n == Len(Ops(t))
                    tree == repos[repo_name[t]].tree
                IN /\ pc[t] = "failed"
                   /\ \A i \in 1..(n - 1) :
                         (Ops(t)[i][1] \in {"create_file", "update_file"}
                          /\ Ops(t)[i][3] = "ok") =>
                              /\ Ops(t)[i][2] \in DOMAIN tree
                              /\ Ops(t)[i][2] \in FileNames =>
                                    tree[Ops(t)[i][2]] = files[t][Ops(t)[i][2]]
                   /\ \A i \in 1..n :
                         /\ Ops(t)[i][1] \notin {"enable_pages", "get_user"}
                         /\ Ops(t)[i][2] \in FileNames =>
                               WriteRank(t, Ops(t)[i][2]) <= WriteRank(t, Ops(t)[n][2])
                   /\ ~repos[repo_name[t]].pages \/ ~Created(t)
                   /\ publish_result[t] = NoResult
                   /\ payload[t] = NoPayload
                   /\ posts[t] = <<>>)
    /\ [][\A t \in Tasks :
            FatalFileFailure(t) =>
                /\ repos' = repos
                /\ repo_ops'[t] = repo_ops[t]
                /\ posts'[t] = posts[t]
                /\ pc'[t] = pc[t]]_vars

\* a revision that overwrote index.html and failed on styles.css: README.md,
\* a later file, is the one of the earlier round
C28_Witness ==
    \E t \in Tasks :
        /\ FatalFileFailure(t)
        /\ UpdatePath(t)
        /\ Ops(t)[Len(Ops(t))] = <<"update_file", "styles.css", "github_500">>
        /\ Ops(t)[Len(Ops(t)) - 2] = <<"update_file", "index.html", "ok">>
        /\ repos[repo_name[t]].tree["index.html"] = files[t]["index.html"]
        /\ repos[repo_name[t]].tree["README.md"] # files[t]["README.md"]

----------------------------------------------------------------------------
(* The round of a build, under Spec *)

\* the operations of update_github_repo
UpdateOps == {"get_repo", "get_contents", "update_file"}

\* C29: a build request that has the secret, a brief and a callback URL with
\* an http scheme is accepted whatever its round, and its task publishes with
\* create_github_repo: its first call to the backend is create_repo and it
\* makes no call of update_github_repo.
C29_BuildIgnoresRound ==
    \A t \in Tasks :
        (/\ req[t].endpoint = "task"
         /\ validate_secret(req[t].secret)
         /\ Strip(req[t].brief) # <<>>
         /\ UrlHasHttpScheme(req[t].evaluation_url)) =>
            /\ ack[t].status = "accepted"
            /\ Accepted(t)
            /\ repo_ops[t] # <<>> => repo_ops[t][1][1] = "create_repo"
            /\ \A i \in 1..Len(repo_ops[t]) : repo_ops[t][i][1] \notin UpdateOps

\* a build of round 2 or more for a name the account has: the creation of the
\* repository is tried, and refused
C29_Witness ==
    \E t \in Tasks :
        /\ req[t].endpoint = "task"
        /\ req[t].round >= 2
        /\ ack[t].status = "accepted"
        /\ repo_ops[t] = << <<"create_repo", "", "github_422">> >>

----------------------------------------------------------------------------
(* README.md after revisions, under SpecSeq *)

\* the revision-history section with its one entry
HistoryEntry(round) ==
    <<"\n", "\n", "H", "\n", "-", " ", "R">> \o IntText(round) \o <<":", " ", "@">>

\* the README.md of the repository of t
RemoteReadme(t) == repos[repo_name[t]].tree["README.md"]

\* this step is the return of update_github_repo to t
UpdateReturns(t) ==
    /\ UpdatePath(t)
    /\ publish_result[t] = NoResult
    /\ publish_result'[t] # NoResult

\* the revision note of t was written
NoteWritten(t) == Ops(t)[Len(Ops(t))] = <<"update_file", "README.md", "ok">>

\* C30 as stated: when a revision of an existing repository returns, README.md
\* is the README the task generated followed by one revision-history entry
\* with the round of the task, whatever earlier revisions left there.
C30_ReadmeOneEntry ==
    [][\A t \in Tasks :
          UpdateReturns(t) =>
              RemoteReadme(t)' = Str(files[t]["README.md"].s \o HistoryEntry(req[t].round))]_vars

\* C30 as amended: when a revision of an existing repository returns,
\* README.md is the README the task generated, followed by one
\* revision-history entry with the round of the task when the write of the
\* entry succeeded and by none when it failed; in both cases nothing of the
\* entries of earlier revisions is left.  README.md changes only in steps of
\* the publish step of some task.
C30_ReadmeAtMostOneEntry ==
    [][/\ \A t \in Tasks :
             UpdateReturns(t) =>
                 RemoteReadme(t)' =
                     IF NoteWritten(t)'
                     THEN Str(files[t]["README.md"].s \o HistoryEntry(req[t].round))
                     ELSE files[t]["README.md"]
       /\ (\A t \in Tasks : pc[t] \notin PublishingPcs) => repos' = repos]_vars

\* two revisions returned one after the other, each having written its
\* entry: README.md is that of the later one, with its entry alone
C30_Witness ==
    \E t, u \in Tasks :
        /\ t # u
        /\ UpdatePath(t) /\ NoteWritten(t) /\ publish_result[t] # NoResult
        /\ UpdatePath(u) /\ NoteWritten(u) /\ publish_result[u] # NoResult
        /\ files[t]["README.md"] # files[u]["README.md"]
        /\ RemoteReadme(u) = Str(files[u]["README.md"].s \o HistoryEntry(req[u].round))
        /\ ~IsPartOf(HistoryEntry(req[t].round), RemoteReadme(u).s)

============================================================================
